---- MODULE Spec2Model ----
(***************************************************************************)
(* Model of the dtm-elevation-service core: the tile repository build,     *)
(* the tile lookup (getGeotiffTile, getTileUTM), the cascading elevation   *)
(* sampler (getElevationForUTMPoint, getElevationForPoint) and the         *)
(* histogram engine (processHistogramData).                                *)
(*                                                                         *)
(* Units: eastings/northings are whole metres, elevations are decimetres   *)
(* (120.5 m is 1205), longitudes/latitudes are hundredths of a degree      *)
(* (8.10 degrees is 810).                                                  *)
(***************************************************************************)
EXTENDS Integers, Sequences, FiniteSets, TLC

VARIABLES pc, repoIdx, pending, readLog, Repository, inserted, lastInsert, response,
          statistics

vars == <<pc, repoIdx, pending, readLog, Repository, inserted, lastInsert, response, statistics>>

(***************************************************************************)
(* Bounds of the model.                                                    *)
(***************************************************************************)
\* number of state repository files named by progConfig.TileRepositories
NumRepos == 2
\* largest number of records in one state repository file
MaxEntries == 2

(***************************************************************************)
(* Fixed-point helpers.                                                    *)
(***************************************************************************)
\* math.Floor(a / b) for integers a, b with b # 0
FloorDiv(a, b) == IF b > 0 THEN a \div b ELSE (0 - a) \div (0 - b)

\* the value -9999.0 ("no data"), in tenths of a metre
noValueSentinel == -99990
\* the literal -9998.9 the samplers compare against
NoDataThreshold == -99989
\* the literal -8888.0 returned when the primary tile is missing
TileMissingElevation == -88880

(***************************************************************************)
(* Tile metadata and the descriptor records the build can read.            *)
(***************************************************************************)
TileMetadata(index, path, source, actuality) ==
    [Index |-> index, Path |-> path, Source |-> source, Actuality |-> actuality]

\* TileMetadata{} (the zero value)
EmptyTile == TileMetadata("", "", "", "")

CellA == "32_437_5615"
CellB == "32_710_5615"

Entries ==
    { TileMetadata(CellA, "dgm1_32_437_5615_nw.tif", "DE-NW", "2024"),
      TileMetadata(CellA, "dgm1_32_437_5615_ni.tif", "DE-NI", "2017"),
      TileMetadata(CellA, "dgm1_32_437_5615_he.tif", "DE-HE", "2021"),
      TileMetadata(CellB, "dgm1_32_710_5615_by.tif", "DE-BY", "2022") }

\* all sequences over S of length 0..n
SeqsUpTo(S, n) == UNION { [1..len -> S] : len \in 0..n }

\* possible contents of one state repository file
StateTileMetadataLists == SeqsUpTo(Entries, MaxEntries)

(***************************************************************************)
(* buildRepository                                                         *)
(***************************************************************************)
\* Repository[key] = entry
MapPut(m, key, entry) ==
    [k \in (DOMAIN m) \cup {key} |-> IF k = key THEN entry ELSE m[k]]

\* mutant: every record is written to its primary slot
InsertIndex_AlwaysPrimary(repo, entry) == entry.Index

\* mutant: an occupied primary slot always sends the record to the secondary slot
InsertIndex_NoTertiary(repo, entry) ==
    IF entry.Index \notin DOMAIN repo THEN entry.Index
    ELSE entry.Index \o "_2"

\* mutant: the tertiary slot is tried before the secondary slot
InsertIndex_TertiaryFirst(repo, entry) ==
    IF entry.Index \notin DOMAIN repo THEN entry.Index
    ELSE IF (entry.Index \o "_3") \notin DOMAIN repo THEN entry.Index \o "_3"
    ELSE entry.Index \o "_2"

\* the key one loop iteration of buildRepository writes the entry to
InsertIndex(repo, entry) ==
    IF entry.Index \notin DOMAIN repo THEN entry.Index
    ELSE IF (entry.Index \o "_2") \notin DOMAIN repo THEN entry.Index \o "_2"
    ELSE entry.Index \o "_3"

\* os.ReadFile / json.Unmarshal of the next state repository succeed
ReadStateRepository ==
    /\ pc = "build"
    /\ pending = <<>>
    /\ repoIdx <= NumRepos
    /\ \E stateTileMetadata \in StateTileMetadataLists :
          /\ pending' = stateTileMetadata
          /\ readLog' = Append(readLog, stateTileMetadata)
    /\ repoIdx' = repoIdx + 1
    /\ UNCHANGED <<statistics, pc, Repository, inserted, lastInsert, response>>

\* os.ReadFile or json.Unmarshal fails: buildRepository returns the error
\* and main exits
ReadStateRepositoryFails ==
    /\ pc = "build"
    /\ pending = <<>>
    /\ repoIdx <= NumRepos
    /\ pc' = "exit"
    /\ UNCHANGED <<statistics, repoIdx, pending, readLog, Repository, inserted, lastInsert, response>>

\* one iteration of the loop over stateTileMetadata
InsertEntry ==
    /\ pc = "build"
    /\ pending # <<>>
    /\ LET entry == Head(pending)
           index == InsertIndex(Repository, entry)
       IN /\ Repository' = MapPut(Repository, index, entry)
          /\ inserted' = Append(inserted, entry)
          /\ lastInsert' = index
    /\ pending' = Tail(pending)
    /\ UNCHANGED <<statistics, pc, repoIdx, readLog, response>>

\* mutant: the server is started while the repository files are still read
FinishBuild_BeforeBuildEnds ==
    /\ pc = "build"
    /\ \E saved \in BOOLEAN : pc' = IF saved THEN "serve" ELSE "exit"
    /\ inserted' = <<>>
    /\ readLog' = <<>>
    /\ lastInsert' = ""
    /\ UNCHANGED <<statistics, repoIdx, pending, Repository, response>>

\* buildRepository returns nil (its record of the lists it read goes out of
\* scope); main saves the repository and starts serving
FinishBuild ==
    /\ pc = "build"
    /\ pending = <<>>
    /\ repoIdx > NumRepos
    /\ \E saved \in BOOLEAN : pc' = IF saved THEN "serve" ELSE "exit"
    /\ inserted' = <<>>
    /\ readLog' = <<>>
    /\ lastInsert' = ""
    /\ UNCHANGED <<statistics, repoIdx, pending, Repository, response>>

(***************************************************************************)
(* Raster files (the GeoTIFFs behind TileMetadata.Path).                   *)
(***************************************************************************)
\* a raster: the geotransform gt (gt[i] of the code is gt[i+1] here), the
\* size, the number of bands, whether band 1 has a supported data type, the
\* pixel values (one per block of PixelBlock columns) and the declared
\* NoData marker
Raster(gt, sizeX, sizeY, bands, typeOK, pix, hasNoData, nodata) ==
    [gt |-> gt, SizeX |-> sizeX, SizeY |-> sizeY, bands |-> bands, typeOK |-> typeOK,
     pix |-> pix, hasNoData |-> hasNoData, nodata |-> nodata]

\* width in columns of one block of equal pixel values
PixelBlock == 400

\* files on disk no state repository of the model refers to: rasters with a
\* rotated, skewed or degenerate geotransform, a small raster without bands
\* and one of an unsupported data type
OtherRasters ==
    [p \in { "rotated.tif", "skewed_zero.tif", "zero_width.tif", "zero_height.tif",
             "small_no_bands.tif", "no_bands.tif", "complex.tif" } |->
       CASE p = "rotated.tif" ->
              Raster(<<437000, 1, 1, 5616000, 0, -1>>, 1000, 1000, 1, TRUE,
                     <<1205, 1205, 1205>>, FALSE, 0)
         [] p = "skewed_zero.tif" ->
              Raster(<<437000, 0, 0, 5616000, 1, -1>>, 1000, 1000, 1, TRUE,
                     <<1205, 1205, 1205>>, FALSE, 0)
         [] p = "zero_width.tif" ->
              Raster(<<437000, 0, 0, 5616000, 0, -1>>, 1000, 1000, 1, TRUE,
                     <<1205, 1205, 1205>>, FALSE, 0)
         [] p = "zero_height.tif" ->
              Raster(<<437000, 1, 0, 5616000, 0, 0>>, 1000, 1000, 1, TRUE,
                     <<1205, 1205, 1205>>, FALSE, 0)
         [] p = "small_no_bands.tif" ->
              Raster(<<437000, 1, 0, 5616000, 0, -1>>, 500, 500, 0, TRUE,
                     <<1205, 1205>>, FALSE, 0)
         [] p = "no_bands.tif" ->
              Raster(<<437000, 1, 0, 5616000, 0, -1>>, 1000, 1000, 0, TRUE,
                     <<1205, 1205, 1205>>, FALSE, 0)
         [] OTHER ->
              Raster(<<437000, 1, 0, 5616000, 0, -1>>, 1000, 1000, 1, FALSE,
                     <<1205, 1205, 1205>>, FALSE, 0)]

\* the files on disk; a path outside the domain does not exist
FileSystem ==
    [p \in { e.Path : e \in Entries } \cup DOMAIN OtherRasters |->
       CASE p = "dgm1_32_437_5615_nw.tif" ->
              \* declares no NoData marker; no measurements east of column 400
              Raster(<<437000, 1, 0, 5616000, 0, -1>>, 1000, 1000, 1, TRUE,
                     <<1205, noValueSentinel, noValueSentinel>>, FALSE, 0)
         [] p = "dgm1_32_437_5615_ni.tif" ->
              \* declares -9999 as NoData marker; measurements in columns 400..799
              Raster(<<437000, 1, 0, 5616000, 0, -1>>, 1000, 1000, 1, TRUE,
                     <<noValueSentinel, 873, noValueSentinel>>, TRUE, noValueSentinel)
         [] p = "dgm1_32_437_5615_he.tif" ->
              \* declares -32768 as NoData marker; holds -9999 everywhere
              Raster(<<437000, 1, 0, 5616000, 0, -1>>, 1000, 1000, 1, TRUE,
                     <<noValueSentinel, noValueSentinel, noValueSentinel>>, TRUE, -327680)
         [] p = "dgm1_32_710_5615_by.tif" ->
              Raster(<<710000, 1, 0, 5616000, 0, -1>>, 1000, 1000, 1, TRUE,
                     <<4502, 4517, 4533>>, TRUE, noValueSentinel)
         [] OTHER -> OtherRasters[p]]

FileExists(filename) == filename \in DOMAIN FileSystem

\* result of getElevationFromUTM: err = "" is the nil error
ElevationResult(elevation, err) == [elevation |-> elevation, err |-> err]

\* band.Read(col, row, buffer, 1, 1)
ReadPixel(raster, col, row) == raster.pix[(col \div PixelBlock) + 1]

\* what the body of getElevationFromUTM yields on an opened dataset, with
\* the pixels band.Read was called for
PixelResult(elevation, err, read) == [elevation |-> elevation, err |-> err, read |-> read]

\* mutant: the pixel size is checked before the rotation
samplePixel_PixelSizeFirst(xUTM, yUTM, dataset, gt) ==
    IF gt[2] = 0 \/ gt[6] = 0 THEN PixelResult(0, "invalid geotransform", <<>>)
    ELSE IF gt[3] # 0 \/ gt[5] # 0 THEN PixelResult(0, "rotated or skewed", <<>>)
    ELSE
      LET col == FloorDiv(xUTM - gt[1], gt[2])
          row == FloorDiv(yUTM - gt[4], gt[6])
      IN IF col < 0 \/ col >= dataset.SizeX \/ row < 0 \/ row >= dataset.SizeY
            THEN PixelResult(0, "outside the raster bounds", <<>>)
         ELSE IF dataset.bands = 0 THEN PixelResult(0, "no raster bands", <<>>)
         ELSE IF ~dataset.typeOK THEN PixelResult(0, "unsupported data type", <<>>)
         ELSE
           LET pixelValue == ReadPixel(dataset, col, row)
           IN IF dataset.hasNoData /\ pixelValue = dataset.nodata
                 THEN PixelResult(0, "NoData value", << <<col, row>> >>)
              ELSE PixelResult(pixelValue, "", << <<col, row>> >>)

\* getElevationFromUTM from the geotransform checks on
samplePixel(xUTM, yUTM, dataset, gt) ==
    IF gt[3] # 0 \/ gt[5] # 0 THEN PixelResult(0, "rotated or skewed", <<>>)
    ELSE IF gt[2] = 0 \/ gt[6] = 0 THEN PixelResult(0, "invalid geotransform", <<>>)
    ELSE
      LET col == FloorDiv(xUTM - gt[1], gt[2])
          row == FloorDiv(yUTM - gt[4], gt[6])
      IN IF col < 0 \/ col >= dataset.SizeX \/ row < 0 \/ row >= dataset.SizeY
            THEN PixelResult(0, "outside the raster bounds", <<>>)
         ELSE IF dataset.bands = 0 THEN PixelResult(0, "no raster bands", <<>>)
         ELSE IF ~dataset.typeOK THEN PixelResult(0, "unsupported data type", <<>>)
         ELSE
           LET pixelValue == ReadPixel(dataset, col, row)
           IN IF dataset.hasNoData /\ pixelValue = dataset.nodata
                 THEN PixelResult(0, "NoData value", << <<col, row>> >>)
              ELSE PixelResult(pixelValue, "", << <<col, row>> >>)

\* the result of samplePixel as the caller gets it
resultOfPixel(r) == ElevationResult(r.elevation, r.err)

getElevationFromUTM(xUTM, yUTM, filename) ==
    IF ~FileExists(filename) THEN ElevationResult(0, "file does not exist")
    ELSE resultOfPixel(samplePixel(xUTM, yUTM, FileSystem[filename], FileSystem[filename].gt))

(***************************************************************************)
(* Tile lookup.                                                            *)
(***************************************************************************)
\* mutant: the prefixes are rounded to the nearest kilometre
TileHash_Rounded(easting, northing, zone, tileVariant) ==
    LET eastingPrefix == FloorDiv(easting + 500, 1000)
        northingPrefix == FloorDiv(northing + 500, 1000)
        base == ToString(zone) \o "_" \o ToString(eastingPrefix) \o "_" \o ToString(northingPrefix)
    IN IF tileVariant = 1 THEN base ELSE base \o "_" \o ToString(tileVariant)

\* fmt.Sprintf("%d_%d_%d", ...) and fmt.Sprintf("%d_%d_%d_%d", ...)
TileHash(easting, northing, zone, tileVariant) ==
    LET eastingPrefix == FloorDiv(easting, 1000)
        northingPrefix == FloorDiv(northing, 1000)
        base == ToString(zone) \o "_" \o ToString(eastingPrefix) \o "_" \o ToString(northingPrefix)
    IN IF tileVariant = 1 THEN base ELSE base \o "_" \o ToString(tileVariant)

\* mutant: the variant is ignored when the repository is read
getGeotiffTile_PrimaryOnly(easting, northing, zone, tileVariant) ==
    LET hash == TileHash(easting, northing, zone, 1)
    IN IF hash \in DOMAIN Repository
          THEN [tile |-> Repository[hash], found |-> TRUE, hash |-> hash]
          ELSE [tile |-> EmptyTile, found |-> FALSE, hash |-> hash]

\* result: the tile, found = (err == nil), and the key that was looked up
getGeotiffTile(easting, northing, zone, tileVariant) ==
    LET hash == TileHash(easting, northing, zone, tileVariant)
    IN IF hash \in DOMAIN Repository
          THEN [tile |-> Repository[hash], found |-> TRUE, hash |-> hash]
          ELSE [tile |-> EmptyTile, found |-> FALSE, hash |-> hash]

(***************************************************************************)
(* Cascading samplers.                                                     *)
(***************************************************************************)
\* what a sampler returns (elevation, tile, err; err = "" is nil) together
\* with the variants whose raster it sampled and the keys it looked up
SampleResult(elevation, tile, err, sampled, lookups) ==
    [elevation |-> elevation, tile |-> tile, err |-> err,
     sampled |-> sampled, lookups |-> lookups]

\* mutant: a sentinel from the primary tile is answered by sampling the
\* primary tile once more
getElevationForUTMPoint_RetryPrimary(zone, easting, northing) ==
    LET t1 == getGeotiffTile(easting, northing, zone, 1)
    IN IF ~t1.found
          THEN SampleResult(TileMissingElevation, t1.tile, "tile not found", <<>>, <<t1.hash>>)
       ELSE
         LET e1 == getElevationFromUTM(easting, northing, t1.tile.Path)
         IN IF e1.err # ""
               THEN SampleResult(e1.elevation, t1.tile, e1.err, <<1>>, <<t1.hash>>)
            ELSE IF ~(e1.elevation < NoDataThreshold)
               THEN SampleResult(e1.elevation, t1.tile, "", <<1>>, <<t1.hash>>)
            ELSE SampleResult(e1.elevation, t1.tile, "", <<1, 1>>, <<t1.hash, t1.hash>>)

getElevationForUTMPoint(zone, easting, northing) ==
    LET t1 == getGeotiffTile(easting, northing, zone, 1)
    IN IF ~t1.found
          THEN SampleResult(TileMissingElevation, t1.tile, "tile not found", <<>>, <<t1.hash>>)
       ELSE
         LET e1 == getElevationFromUTM(easting, northing, t1.tile.Path)
         IN IF e1.err # ""
               THEN SampleResult(e1.elevation, t1.tile, e1.err, <<1>>, <<t1.hash>>)
            ELSE IF ~(e1.elevation < NoDataThreshold)
               THEN SampleResult(e1.elevation, t1.tile, "", <<1>>, <<t1.hash>>)
            ELSE
              LET t2 == getGeotiffTile(easting, northing, zone, 2)
              IN IF ~t2.found
                    THEN SampleResult(e1.elevation, t2.tile, "tile not found", <<1>>,
                                      <<t1.hash, t2.hash>>)
                 ELSE
                   LET e2 == getElevationFromUTM(easting, northing, t2.tile.Path)
                   IN IF e2.err # ""
                         THEN SampleResult(e2.elevation, t2.tile, e2.err, <<1, 2>>,
                                           <<t1.hash, t2.hash>>)
                      ELSE IF ~(e2.elevation < NoDataThreshold)
                         THEN SampleResult(e2.elevation, t2.tile, "", <<1, 2>>,
                                           <<t1.hash, t2.hash>>)
                      ELSE
                        LET t3 == getGeotiffTile(easting, northing, zone, 3)
                        IN IF ~t3.found
                              THEN SampleResult(e2.elevation, t3.tile, "tile not found",
                                                <<1, 2>>, <<t1.hash, t2.hash, t3.hash>>)
                           ELSE
                             LET e3 == getElevationFromUTM(easting, northing, t3.tile.Path)
                             IN IF e3.err # ""
                                   THEN SampleResult(e3.elevation, t3.tile, e3.err,
                                                     <<1, 2, 3>>, <<t1.hash, t2.hash, t3.hash>>)
                                ELSE SampleResult(e3.elevation, t3.tile, "",
                                                  <<1, 2, 3>>, <<t1.hash, t2.hash, t3.hash>>)

(***************************************************************************)
(* Zone resolution and lookup for geographic coordinates.                  *)
(***************************************************************************)
\* the projection engine behind transformLonLatToUTM: easting 500000 on the
\* central meridian of the zone (EPSG 258zz is zone zz), 700 m per hundredth
\* of a degree of longitude, 1112 m per hundredth of a degree of latitude;
\* it fails for latitudes beyond the poles
transformLonLatToUTM(lon, lat, targetEPSG) ==
    LET centralMeridian == ((targetEPSG - 25800) * 6 - 183) * 100
    IN IF lat > 9000 \/ lat < -9000
          THEN [x |-> 0, y |-> 0, ok |-> FALSE]
          ELSE [x |-> 500000 + (lon - centralMeridian) * 700, y |-> lat * 1112, ok |-> TRUE]

ZoneChoice(valid, zone, targetEPSG, neighborZone, neighborTargetEPSG) ==
    [valid |-> valid, zone |-> zone, targetEPSG |-> targetEPSG,
     neighborZone |-> neighborZone, neighborTargetEPSG |-> neighborTargetEPSG]

\* mutant: the neighbor thresholds are exclusive
deriveZones_ExclusiveHalf(longitude) ==
    IF longitude >= 600 /\ longitude < 1200
       THEN IF longitude > 900 THEN ZoneChoice(TRUE, 32, 25832, 33, 25833)
                               ELSE ZoneChoice(TRUE, 32, 25832, 31, 25831)
    ELSE IF longitude >= 1200 /\ longitude < 1800
       THEN IF longitude > 1500 THEN ZoneChoice(TRUE, 33, 25833, 34, 25834)
                                ELSE ZoneChoice(TRUE, 33, 25833, 32, 25832)
    ELSE IF longitude >= 0 /\ longitude < 600
       THEN IF longitude > 300 THEN ZoneChoice(TRUE, 31, 25831, 32, 25832)
                               ELSE ZoneChoice(TRUE, 31, 25831, 30, 25830)
    ELSE ZoneChoice(FALSE, 0, 0, 0, 0)

\* the switch at the head of getTileUTM
deriveZones(longitude) ==
    IF longitude >= 600 /\ longitude < 1200
       THEN IF longitude >= 900 THEN ZoneChoice(TRUE, 32, 25832, 33, 25833)
                                ELSE ZoneChoice(TRUE, 32, 25832, 31, 25831)
    ELSE IF longitude >= 1200 /\ longitude < 1800
       THEN IF longitude >= 1500 THEN ZoneChoice(TRUE, 33, 25833, 34, 25834)
                                 ELSE ZoneChoice(TRUE, 33, 25833, 32, 25832)
    ELSE IF longitude >= 0 /\ longitude < 600
       THEN IF longitude >= 300 THEN ZoneChoice(TRUE, 31, 25831, 32, 25832)
                                ELSE ZoneChoice(TRUE, 31, 25831, 30, 25830)
    ELSE ZoneChoice(FALSE, 0, 0, 0, 0)

\* what getTileUTM returns (tile, zone, x, y, err) together with the keys it
\* looked up and the projections it transformed into
TileUTMResult(tile, zone, x, y, err, lookups, transforms) ==
    [tile |-> tile, zone |-> zone, x |-> x, y |-> y, err |-> err,
     lookups |-> lookups, transforms |-> transforms]

\* mutant: the neighbor zone is looked up at the primary-zone coordinates
getTileUTM_PrimaryCoordinates(longitude, latitude) ==
    LET z == deriveZones(longitude)
    IN IF ~z.valid
          THEN TileUTMResult(EmptyTile, 0, 0, 0, "invalid longitude", <<>>, <<>>)
       ELSE
         LET p == transformLonLatToUTM(longitude, latitude, z.targetEPSG)
         IN IF ~p.ok
               THEN TileUTMResult(EmptyTile, 0, 0, 0, "error transforming coordinates",
                                  <<>>, <<z.targetEPSG>>)
            ELSE
              LET t == getGeotiffTile(p.x, p.y, z.zone, 1)
              IN IF t.found
                    THEN TileUTMResult(t.tile, z.zone, p.x, p.y, "", <<t.hash>>,
                                       <<z.targetEPSG>>)
                 ELSE
                   LET q == transformLonLatToUTM(longitude, latitude, z.neighborTargetEPSG)
                   IN IF ~q.ok
                         THEN TileUTMResult(t.tile, 0, 0, 0, "error transforming coordinates",
                                            <<t.hash>>, <<z.targetEPSG, z.neighborTargetEPSG>>)
                      ELSE
                        LET n == getGeotiffTile(p.x, p.y, z.neighborZone, 1)
                        IN IF ~n.found
                              THEN TileUTMResult(n.tile, 0, 0, 0, "tile not found",
                                                 <<t.hash, n.hash>>,
                                                 <<z.targetEPSG, z.neighborTargetEPSG>>)
                              ELSE TileUTMResult(n.tile, z.neighborZone, p.x, p.y, "",
                                                 <<t.hash, n.hash>>,
                                                 <<z.targetEPSG, z.neighborTargetEPSG>>)

getTileUTM(longitude, latitude) ==
    LET z == deriveZones(longitude)
    IN IF ~z.valid
          THEN TileUTMResult(EmptyTile, 0, 0, 0, "invalid longitude", <<>>, <<>>)
       ELSE
         LET p == transformLonLatToUTM(longitude, latitude, z.targetEPSG)
         IN IF ~p.ok
               THEN TileUTMResult(EmptyTile, 0, 0, 0, "error transforming coordinates",
                                  <<>>, <<z.targetEPSG>>)
            ELSE
              LET t == getGeotiffTile(p.x, p.y, z.zone, 1)
              IN IF t.found
                    THEN TileUTMResult(t.tile, z.zone, p.x, p.y, "", <<t.hash>>,
                                       <<z.targetEPSG>>)
                 ELSE
                   LET q == transformLonLatToUTM(longitude, latitude, z.neighborTargetEPSG)
                   IN IF ~q.ok
                         THEN TileUTMResult(t.tile, 0, 0, 0, "error transforming coordinates",
                                            <<t.hash>>, <<z.targetEPSG, z.neighborTargetEPSG>>)
                      ELSE
                        LET n == getGeotiffTile(q.x, q.y, z.neighborZone, 1)
                        IN IF ~n.found
                              THEN TileUTMResult(n.tile, 0, 0, 0, "tile not found",
                                                 <<t.hash, n.hash>>,
                                                 <<z.targetEPSG, z.neighborTargetEPSG>>)
                              ELSE TileUTMResult(n.tile, z.neighborZone, q.x, q.y, "",
                                                 <<t.hash, n.hash>>,
                                                 <<z.targetEPSG, z.neighborTargetEPSG>>)

\* getElevationForPoint after its call of getTileUTM has returned r
sampleResolvedTile(r) ==
    IF r.err # ""
          THEN SampleResult(0, r.tile, r.err, <<>>, r.lookups)
       ELSE
         LET e1 == getElevationFromUTM(r.x, r.y, r.tile.Path)
         IN IF e1.err # ""
               THEN SampleResult(e1.elevation, r.tile, e1.err, <<1>>, r.lookups)
            ELSE IF ~(e1.elevation < NoDataThreshold)
               THEN SampleResult(e1.elevation, r.tile, "", <<1>>, r.lookups)
            ELSE
              LET t2 == getGeotiffTile(r.x, r.y, r.zone, 2)
              IN IF ~t2.found
                    THEN SampleResult(e1.elevation, t2.tile, "tile not found", <<1>>,
                                      Append(r.lookups, t2.hash))
                 ELSE
                   LET e2 == getElevationFromUTM(r.x, r.y, t2.tile.Path)
                   IN IF e2.err # ""
                         THEN SampleResult(e2.elevation, t2.tile, e2.err, <<1, 2>>,
                                           Append(r.lookups, t2.hash))
                      ELSE IF ~(e2.elevation < NoDataThreshold)
                         THEN SampleResult(e2.elevation, t2.tile, "", <<1, 2>>,
                                           Append(r.lookups, t2.hash))
                      ELSE
                        LET t3 == getGeotiffTile(r.x, r.y, r.zone, 3)
                            lookups3 == r.lookups \o <<t2.hash, t3.hash>>
                        IN IF ~t3.found
                              THEN SampleResult(e2.elevation, t3.tile, "tile not found",
                                                <<1, 2>>, lookups3)
                           ELSE
                             LET e3 == getElevationFromUTM(r.x, r.y, t3.tile.Path)
                             IN IF e3.err # ""
                                   THEN SampleResult(e3.elevation, t3.tile, e3.err,
                                                     <<1, 2, 3>>, lookups3)
                                ELSE SampleResult(e3.elevation, t3.tile, "",
                                                  <<1, 2, 3>>, lookups3)

getElevationForPoint(longitude, latitude) ==
    sampleResolvedTile(getTileUTM(longitude, latitude))

(***************************************************************************)
(* Request handlers.                                                       *)
(***************************************************************************)
\* request inputs
Zones == {31, 32, 33}
Eastings == {437000, 437500, 437999, 438000, 710850}
Northings == {5615600, 5616000}
Longitudes == {-1, 0, 299, 300, 599, 600, 810, 811, 899, 900, 1199, 1200, 1499, 1500, 1799, 1800}
\* the geographic points requests ask for
Points == (Longitudes \X {5050}) \cup {<<810, 9100>>, <<810, 4600>>}

\* utmPointRequest: verifyUTMPointRequestData, then getElevationForUTMPoint
utmPointRequest ==
    /\ pc = "serve"
    /\ \E zone \in Zones, easting \in Eastings, northing \in Northings :
          response' =
             IF zone < 32 \/ zone > 33
                THEN [op |-> "utmpoint", zone |-> zone, x |-> easting, y |-> northing,
                      code |-> "3060"]
                ELSE LET r == getElevationForUTMPoint(zone, easting, northing)
                     IN [op |-> "utmpoint", zone |-> zone, x |-> easting, y |-> northing,
                         code |-> IF r.err # "" THEN "3080" ELSE "", result |-> r]
    /\ UNCHANGED <<statistics, pc, repoIdx, pending, readLog, Repository, inserted, lastInsert>>

\* pointRequest: verifyPointRequestData, then getElevationForPoint
pointRequest ==
    /\ pc = "serve"
    /\ \E point \in Points :
          response' =
             LET longitude == point[1]
                 latitude == point[2]
             IN
             IF latitude > 5530 \/ latitude < 4700 \/ longitude > 1530 \/ longitude < 550
                THEN [op |-> "point", lon |-> longitude, lat |-> latitude, code |-> "1060"]
                ELSE LET r == getElevationForPoint(longitude, latitude)
                     IN [op |-> "point", lon |-> longitude, lat |-> latitude,
                         code |-> IF r.err # "" THEN "1080" ELSE "",
                         result |-> r, resolved |-> getTileUTM(longitude, latitude)]
    /\ UNCHANGED <<statistics, pc, repoIdx, pending, readLog, Repository, inserted, lastInsert>>

\* processPoint of addElevationToGPX: getElevationForPoint for one GPX point
\* (GPX coordinates are not verified)
processPoint ==
    /\ pc = "serve"
    /\ \E point \in Points :
          response' =
             LET longitude == point[1]
                 latitude == point[2]
                 r == getElevationForPoint(longitude, latitude)
             IN [op |-> "gpxpoint", lon |-> longitude, lat |-> latitude,
                 code |-> "", result |-> r, resolved |-> getTileUTM(longitude, latitude)]
    /\ UNCHANGED <<statistics, pc, repoIdx, pending, readLog, Repository, inserted, lastInsert>>

(***************************************************************************)
(* Elevation profile.  Distances are exact rationals n/d of metres; the    *)
(* coordinate handed to the sampler is the whole metre below the sample    *)
(* position (tile key and pixel index only use its floor).                 *)
(***************************************************************************)
Frac(n, d) == [n |-> n, d |-> d]
FracLt(a, b) == a.n * b.d < b.n * a.d
FracEq(a, b) == a.n * b.d = b.n * a.d
FracLe(a, b) == a.n * b.d <= b.n * a.d
FracSub(a, b) == Frac(a.n * b.d - b.n * a.d, a.d * b.d)

\* |a|
Abs(a) == IF a < 0 THEN 0 - a ELSE a

\* sq is the square of a whole number
IsSquare(sq, upper) == \E r \in 0..upper : r * r = sq

\* math.Sqrt(sq) for the square of a whole number not above upper
Sqrt(sq, upper) == CHOOSE r \in 0..upper : r * r = sq

\* math.Ceil(a / b) for a >= 0, b > 0
CeilDiv(a, b) == 0 - FloorDiv(0 - a, b)

PointDefinition(zone, easting, northing) ==
    [Zone |-> zone, Easting |-> easting, Northing |-> northing]

ProfilePoint(distance, elevation, source, actuality, easting, northing) ==
    [Distance |-> distance, Elevation |-> elevation,
     Attribution |-> source \o ", " \o actuality, Easting |-> easting, Northing |-> northing]

\* mutant: the minimum step size is never applied
profileGrid_IdealOnly(distance, maxTotalProfilePoints, minStepSize) ==
    LET maxPoints == IF maxTotalProfilePoints <= 1 THEN 2 ELSE maxTotalProfilePoints
        idealNumberOfSegments == maxPoints - 1
    IN [stepSize |-> Frac(distance, idealNumberOfSegments), steps |-> idealNumberOfSegments]

\* mutant: the segment count of the minimum step is rounded down
profileGrid_FloorSegments(distance, maxTotalProfilePoints, minStepSize) ==
    LET maxPoints == IF maxTotalProfilePoints <= 1 THEN 2 ELSE maxTotalProfilePoints
        idealNumberOfSegments == maxPoints - 1
    IN IF distance < minStepSize * idealNumberOfSegments
          THEN [stepSize |-> Frac(minStepSize, 1), steps |-> distance \div minStepSize]
          ELSE [stepSize |-> Frac(distance, idealNumberOfSegments),
                steps |-> idealNumberOfSegments]

\* stepSize and steps of calculateElevationProfile for distance > 0;
\* "idealStepSize < minStepSize" is distance / segments < minStepSize
profileGrid(distance, maxTotalProfilePoints, minStepSize) ==
    LET maxPoints == IF maxTotalProfilePoints <= 1 THEN 2 ELSE maxTotalProfilePoints
        idealNumberOfSegments == maxPoints - 1
    IN IF distance < minStepSize * idealNumberOfSegments
          THEN [stepSize |-> Frac(minStepSize, 1), steps |-> CeilDiv(distance, minStepSize)]
          ELSE [stepSize |-> Frac(distance, idealNumberOfSegments),
                steps |-> idealNumberOfSegments]

\* mutant: the last sample keeps its grid distance
currentDistance_NoEndpoint(i, distance, grid) ==
    Frac(i * grid.stepSize.n, grid.stepSize.d)

\* currentDistance of loop index i
currentDistance(i, distance, grid) ==
    IF i = grid.steps THEN Frac(distance, 1) ELSE Frac(i * grid.stepSize.n, grid.stepSize.d)

\* what calculateElevationProfile returns (profile, sources, err; err = ""
\* is nil) together with the positions it visited and the grid it chose
ProfileResult(profile, usedSources, err, visited, steps, stepSize, distance) ==
    [profile |-> profile, usedSources |-> usedSources, err |-> err, visited |-> visited,
     steps |-> steps, stepSize |-> stepSize, distance |-> distance]

\* the codes of elevationSources
elevationSources ==
    { "DE-BW", "DE-BY", "DE-BE", "DE-BB", "DE-HB", "DE-HH", "DE-HE", "DE-MV",
      "DE-NI", "DE-NW", "DE-RP", "DE-SL", "DE-SN", "DE-ST", "DE-SH", "DE-TH" }

\* getElevationResource: the error ("" is nil) for a code
getElevationResource(code) ==
    IF code \in elevationSources THEN ""
    ELSE "elevation source for country-statecode [" \o code \o "] not found"

\* mutant: the loop ends at the first failed lookup
profileStep_AbortOnError(acc, distance, easting, northing, r) ==
    IF r.err # "" \/ Len(acc.visited) > Len(acc.profile)
       THEN [acc EXCEPT !.visited = Append(@, [Distance |-> distance, Easting |-> easting,
                                                Northing |-> northing, err |-> "aborted"])]
       ELSE [acc EXCEPT
               !.profile = Append(@, ProfilePoint(distance, r.elevation, r.tile.Source,
                                                  r.tile.Actuality, easting, northing)),
               !.usedSources = IF getElevationResource(r.tile.Source) = ""
                                   THEN @ \cup {r.tile.Source} ELSE @,
               !.visited = Append(@, [Distance |-> distance, Easting |-> easting,
                                      Northing |-> northing, err |-> r.err])]

\* the body of the sampling loop once the lookup r of the position is known
profileStep(acc, distance, easting, northing, r) ==
    IF r.err # ""
       THEN [acc EXCEPT !.visited = Append(@, [Distance |-> distance, Easting |-> easting,
                                                Northing |-> northing, err |-> r.err])]
       ELSE [acc EXCEPT
               !.profile = Append(@, ProfilePoint(distance, r.elevation, r.tile.Source,
                                                  r.tile.Actuality, easting, northing)),
               !.usedSources = IF getElevationResource(r.tile.Source) = ""
                                   THEN @ \cup {r.tile.Source} ELSE @,
               !.visited = Append(@, [Distance |-> distance, Easting |-> easting,
                                      Northing |-> northing, err |-> r.err])]

\* the whole metre below start + unitVector * currentDistance, where
\* unitVector = delta / distance and start is a whole number of metres
profileCoordinate(start, delta, distance, cd) ==
    start + FloorDiv(delta * cd.n, distance * cd.d)

\* the lookup of one sample position
profileSample(acc, zone, cd, easting, northing) ==
    profileStep(acc, cd, easting, northing, getElevationForUTMPoint(zone, easting, northing))

RECURSIVE profileFrom(_, _, _, _, _, _, _)
\* the sampling loop from index i on
profileFrom(i, acc, startUTM, deltaEasting, deltaNorthing, distance, grid) ==
    IF i > grid.steps THEN acc
    ELSE profileFrom(i + 1,
                     profileSample(acc, startUTM.Zone, currentDistance(i, distance, grid),
                                   profileCoordinate(startUTM.Easting, deltaEasting, distance,
                                                     currentDistance(i, distance, grid)),
                                   profileCoordinate(startUTM.Northing, deltaNorthing, distance,
                                                     currentDistance(i, distance, grid))),
                     startUTM, deltaEasting, deltaNorthing, distance, grid)

\* calculateElevationProfile once the distance is known
profileOfDistance(startUTM, deltaEasting, deltaNorthing, distance, grid) ==
    profileFrom(0, ProfileResult(<<>>, {}, "", <<>>, grid.steps, grid.stepSize, distance),
                startUTM, deltaEasting, deltaNorthing, distance, grid)

\* calculateElevationProfile for a UTM request (pointA.Zone # 0)
calculateElevationProfile(pointA, pointB, maxTotalProfilePoints, minStepSize) ==
    LET deltaEasting == pointB.Easting - pointA.Easting
        deltaNorthing == pointB.Northing - pointA.Northing
        distance == Sqrt(deltaEasting * deltaEasting + deltaNorthing * deltaNorthing,
                         Abs(deltaEasting) + Abs(deltaNorthing))
    IN IF distance = 0
          THEN ProfileResult(<<>>, {}, "start and end points are identical", <<>>,
                             0, Frac(0, 1), 0)
          ELSE profileOfDistance(pointA, deltaEasting, deltaNorthing, distance,
                                 profileGrid(distance, maxTotalProfilePoints, minStepSize))

\* the UTM points profile requests run between
ProfilePoints ==
    { PointDefinition(32, 436900, 5615600), PointDefinition(32, 437000, 5615600),
      PointDefinition(32, 437100, 5615600), PointDefinition(32, 437900, 5615600),
      PointDefinition(32, 438100, 5615600), PointDefinition(32, 437300, 5615200),
      PointDefinition(33, 437000, 5615600) }

\* the pairs of points whose planar distance is a whole number of metres
ProfilePairs ==
    { pair \in ProfilePoints \X ProfilePoints :
         IsSquare((pair[2].Easting - pair[1].Easting) * (pair[2].Easting - pair[1].Easting)
                    + (pair[2].Northing - pair[1].Northing) * (pair[2].Northing - pair[1].Northing),
                  Abs(pair[2].Easting - pair[1].Easting)
                    + Abs(pair[2].Northing - pair[1].Northing)) }

\* MaxTotalProfilePoints and MinStepSize (metres) of the requests
ProfileMaxPoints == {1, 2, 3, 10}
ProfileMinSteps == {1, 5, 400}

\* the requests: pairs of points, MaxTotalProfilePoints, MinStepSize
ProfileRequests ==
    { [pointA |-> pair[1], pointB |-> pair[2],
       maxTotalProfilePoints |-> maxTotalProfilePoints, minStepSize |-> minStepSize] :
         pair \in ProfilePairs, maxTotalProfilePoints \in ProfileMaxPoints,
         minStepSize \in ProfileMinSteps }

RECURSIVE RepositoryOf(_, _)
\* the repository the loop of buildRepository makes of the records, from repo
RepositoryOf(repo, records) ==
    IF records = <<>> THEN repo
    ELSE RepositoryOf(MapPut(repo, InsertIndex(repo, Head(records)), Head(records)),
                      Tail(records))

\* the record of Entries with the given path
EntryOf(path) == CHOOSE e \in Entries : e.Path = path

\* repositories profile requests are served from
ProfileRepositories ==
    { RepositoryOf([k \in {} |-> EmptyTile], records) :
         records \in { <<>>,
                       <<EntryOf("dgm1_32_437_5615_nw.tif")>>,
                       <<EntryOf("dgm1_32_437_5615_ni.tif"),
                         EntryOf("dgm1_32_437_5615_nw.tif")>>,
                       <<EntryOf("dgm1_32_437_5615_nw.tif"),
                         EntryOf("dgm1_32_437_5615_ni.tif"),
                         EntryOf("dgm1_32_437_5615_he.tif")>> } }

\* elevationprofileRequest: verifyElevationProfileRequestData, then
\* calculateElevationProfile
elevationprofileRequest ==
    /\ pc = "profile"
    /\ pc' = "profileDone"
    /\ response' =
          LET request == response.request
              answered == [op |-> "profile", request |-> request]
          IN IF \/ request.pointA.Zone # request.pointB.Zone
                \/ request.maxTotalProfilePoints < 2 \/ request.maxTotalProfilePoints > 2000
                \/ request.minStepSize < 1 \/ request.minStepSize > 1000
                THEN answered @@ [code |-> "14060"]
                ELSE LET r == calculateElevationProfile(request.pointA, request.pointB,
                                                        request.maxTotalProfilePoints,
                                                        request.minStepSize)
                     IN answered @@ [code |-> IF r.err # "" THEN "14080" ELSE "",
                                     profileResult |-> r]
    /\ UNCHANGED <<statistics, repoIdx, pending, readLog, Repository, inserted, lastInsert>>

(***************************************************************************)
(* addElevationToGPX.  A GPX point carries its position, its elevation     *)
(* (a nullable value) and its description.                                 *)
(***************************************************************************)
\* longest list of waypoints and of track points of the documents
MaxGPXPoints == 2

GPXPoint(longitude, latitude, elevation, description) ==
    [Longitude |-> longitude, Latitude |-> latitude,
     Elevation |-> elevation, Description |-> description]

\* gpx.NullableFloat64: no value, or a value in tenths of a metre
NoElevation == [set |-> FALSE, value |-> 0]
SetValue(elevation) == [set |-> TRUE, value |-> elevation]

\* the points of the documents: in cell 32_437_5615 (columns 0 and 700),
\* and west of every tile, with an elevation and a description of its own
GPXPoints ==
    { GPXPoint(810, 5050, NoElevation, ""),
      GPXPoint(811, 5050, NoElevation, "summit"),
      GPXPoint(700, 5050, SetValue(770), "hut") }

\* a document: waypoints, one route, one track of one segment
GPX(waypoints, routePoints, trackPoints) ==
    [Waypoints |-> waypoints,
     Routes |-> <<[Points |-> routePoints]>>,
     Tracks |-> <<[Segments |-> <<[Points |-> trackPoints]>>]>>]

GPXDocuments ==
    { GPX(waypoints, routePoints, trackPoints) :
         waypoints \in SeqsUpTo(GPXPoints, MaxGPXPoints),
         routePoints \in SeqsUpTo(GPXPoints, 1),
         trackPoints \in SeqsUpTo(GPXPoints, MaxGPXPoints) }

\* mutant: gpxPoints counts the points whose lookup succeeded
processGPXPoint_CountsSuccesses(acc, point, r) ==
    IF r.err # ""
       THEN [acc EXCEPT !.points = Append(@, point),
                        !.visited = Append(@, <<point.Longitude, point.Latitude>>)]
       ELSE [acc EXCEPT
               !.points = Append(@, [point EXCEPT
                                       !.Elevation = SetValue(r.elevation),
                                       !.Description =
                                          IF @ = ""
                                             THEN "ele: " \o r.tile.Source \o ", " \o r.tile.Actuality
                                             ELSE @ \o " ele: " \o r.tile.Source \o ", "
                                                    \o r.tile.Actuality]),
               !.gpxPoints = @ + 1,
               !.dgmPoints = @ + 1,
               !.usedSources = IF getElevationResource(r.tile.Source) = ""
                                   THEN @ \cup {r.tile.Source} ELSE @,
               !.visited = Append(@, <<point.Longitude, point.Latitude>>)]

\* the closure processPoint of addElevationToGPX once the lookup r of the
\* point is known; acc.points collects the points as they are left behind
processGPXPoint(acc, point, r) ==
    IF r.err # ""
       THEN [acc EXCEPT !.points = Append(@, point),
                        !.gpxPoints = @ + 1,
                        !.visited = Append(@, <<point.Longitude, point.Latitude>>)]
       ELSE [acc EXCEPT
               !.points = Append(@, [point EXCEPT
                                       !.Elevation = SetValue(r.elevation),
                                       !.Description =
                                          IF @ = ""
                                             THEN "ele: " \o r.tile.Source \o ", " \o r.tile.Actuality
                                             ELSE @ \o " ele: " \o r.tile.Source \o ", "
                                                    \o r.tile.Actuality]),
               !.gpxPoints = @ + 1,
               !.dgmPoints = @ + 1,
               !.usedSources = IF getElevationResource(r.tile.Source) = ""
                                   THEN @ \cup {r.tile.Source} ELSE @,
               !.visited = Append(@, <<point.Longitude, point.Latitude>>)]

RECURSIVE processGPXPoints(_, _, _)
\* one of the loops over a slice of points, from index i on
processGPXPoints(acc, points, i) ==
    IF i > Len(points) THEN acc
    ELSE processGPXPoints(
            processGPXPoint(acc, points[i],
                            getElevationForPoint(points[i].Longitude, points[i].Latitude)),
            points, i + 1)

\* the points a loop left behind: those collected after the first n
PointsAfter(acc, n) == SubSeq(acc.points, n + 1, Len(acc.points))

\* what addElevationToGPX returns (err = "" is nil) and the positions it visited
GPXResult(gpxData, acc) ==
    [gpxData |-> gpxData, usedSources |-> acc.usedSources, gpxPoints |-> acc.gpxPoints,
     dgmPoints |-> acc.dgmPoints, err |-> "", visited |-> acc.visited]

\* addElevationToGPX once the three loops have run
gpxOfLoops(gpxData, afterWaypoints, afterRoutes, afterTracks) ==
    GPXResult(GPX(PointsAfter(afterWaypoints, 0),
                  PointsAfter(afterRoutes, Len(afterWaypoints.points)),
                  PointsAfter(afterTracks, Len(afterRoutes.points))),
              afterTracks)

\* the loops over the routes and the tracks
gpxAfterWaypoints(gpxData, afterWaypoints) ==
    gpxOfLoops(gpxData, afterWaypoints,
               processGPXPoints(afterWaypoints, gpxData.Routes[1].Points, 1),
               processGPXPoints(processGPXPoints(afterWaypoints, gpxData.Routes[1].Points, 1),
                                gpxData.Tracks[1].Segments[1].Points, 1))

addElevationToGPX(gpxData) ==
    gpxAfterWaypoints(gpxData,
                      processGPXPoints([points |-> <<>>, gpxPoints |-> 0, dgmPoints |-> 0,
                                        usedSources |-> {}, visited |-> <<>>],
                                       gpxData.Waypoints, 1))

\* gpxRequest: the call of addElevationToGPX on the parsed document
gpxRequest ==
    /\ pc = "gpx"
    /\ pc' = "gpxDone"
    /\ response' = [op |-> "gpx", gpxData |-> response.gpxData,
                    result |-> addElevationToGPX(response.gpxData)]
    /\ UNCHANGED <<statistics, repoIdx, pending, readLog, Repository, inserted, lastInsert>>

(***************************************************************************)
(* float64 values of the histogram engine.  A finite value is kept exactly *)
(* as an integer number of units; one call of processHistogramData works   *)
(* in units of 1/(10000 * numberOfBins), which makes the bin width and the *)
(* 0.0001 adjustment exact.  NaN and the infinities are kept as such.      *)
(***************************************************************************)
Num(v) == [k |-> "num", v |-> v]
NaN == [k |-> "nan", v |-> 0]
PosInf == [k |-> "pinf", v |-> 0]
NegInf == [k |-> "ninf", v |-> 0]

\* position on the extended real line: -Inf, the finite values, +Inf
Rank(a) == IF a.k = "ninf" THEN 0 ELSE IF a.k = "num" THEN 1 ELSE 2

\* a < b, a == b, a >= b, a > b, a <= b of float64 (all false on NaN)
FLt(a, b) ==
    /\ a.k # "nan"
    /\ b.k # "nan"
    /\ (Rank(a) < Rank(b) \/ (a.k = "num" /\ b.k = "num" /\ a.v < b.v))
FEq(a, b) == a.k # "nan" /\ b.k # "nan" /\ a = b
FGt(a, b) == FLt(b, a)
FGe(a, b) == FLt(b, a) \/ FEq(a, b)
FLe(a, b) == FLt(a, b) \/ FEq(a, b)

FNeg(a) ==
    IF a.k = "num" THEN Num(0 - a.v)
    ELSE IF a.k = "pinf" THEN NegInf
    ELSE IF a.k = "ninf" THEN PosInf
    ELSE NaN

FAdd(a, b) ==
    IF a.k = "nan" \/ b.k = "nan" THEN NaN
    ELSE IF a.k = "num" /\ b.k = "num" THEN Num(a.v + b.v)
    ELSE IF a.k = "num" THEN b
    ELSE IF b.k = "num" THEN a
    ELSE IF a.k = b.k THEN a
    ELSE NaN

FSub(a, b) == FAdd(a, FNeg(b))

\* a * float64(n) and a / float64(n) for an integer n > 0 (the divisions of
\* the engine are exact in its units)
FMulInt(a, n) == IF a.k = "num" THEN Num(a.v * n) ELSE a
FDivInt(a, n) == IF a.k = "num" THEN Num(a.v \div n) ELSE a

\* math.Abs
FAbs(a) == IF a.k = "num" THEN Num(IF a.v < 0 THEN 0 - a.v ELSE a.v)
           ELSE IF a.k = "nan" THEN NaN ELSE PosInf

\* stand-in for math.MaxFloat64: larger than every finite value of the model
MaxFloat64 == 1000000000

\* the strings a request can carry as MinValue / MaxValue
UserValueStrings == {"", "3", "5", "NaN", "Inf", "-Inf", "abc"}

\* strconv.ParseFloat(str, 64): ok = (err == nil); finite results in whole units
ParseFloat(str) ==
    CASE str = "3" -> [ok |-> TRUE, val |-> Num(3)]
      [] str = "5" -> [ok |-> TRUE, val |-> Num(5)]
      [] str = "NaN" -> [ok |-> TRUE, val |-> NaN]
      [] str = "Inf" -> [ok |-> TRUE, val |-> PosInf]
      [] str = "-Inf" -> [ok |-> TRUE, val |-> NegInf]
      [] OTHER -> [ok |-> FALSE, val |-> Num(0)]

\* a value in whole units, in the units of a call with the given scale
Scaled(a, scale) == FMulInt(a, scale)

(***************************************************************************)
(* Histogram engine.                                                       *)
(***************************************************************************)
\* float64(n) / float64(d) * 100, kept as the fraction 100 n / d
Percent(n, d) == [n |-> 100 * n, d |-> d]
ZeroPercent == [n |-> 0, d |-> 1]

\* the zero value of HistogramStatistic
ZeroStatistic ==
    [NoValueCount |-> 0, ValuesTotal |-> 0,
     MinValueAbsolute |-> Num(0), MaxValueAbsolute |-> Num(0),
     MinValueHistogram |-> Num(0), MaxValueHistogram |-> Num(0),
     NoValuePercent |-> ZeroPercent,
     BelowHistogramMinCount |-> 0, AboveHistogramMaxCount |-> 0,
     BelowHistogramMinPercent |-> ZeroPercent, AboveHistogramMaxPercent |-> ZeroPercent]

HistogramEntry(lowerBound, upperBound, binCount, binPercent) ==
    [LowerBound |-> lowerBound, UpperBound |-> upperBound,
     BinCount |-> binCount, BinPercent |-> binPercent]

\* what processHistogramData returns; err = "" is nil; unbinned counts the
\* values that reached the "not binned (internal error)" branch
HistogramResult(statistic, entries, err, unbinned) ==
    [statistic |-> statistic, entries |-> entries, err |-> err, unbinned |-> unbinned]

RECURSIVE MinFrom(_, _, _)
\* the loop of findMinMaxFromValues for minVal, from index i on
MinFrom(values, i, minVal) ==
    IF i > Len(values) THEN minVal
    ELSE MinFrom(values, i + 1, IF FLt(values[i], minVal) THEN values[i] ELSE minVal)

RECURSIVE MaxFrom(_, _, _)
\* the loop of findMinMaxFromValues for maxVal, from index i on
MaxFrom(values, i, maxVal) ==
    IF i > Len(values) THEN maxVal
    ELSE MaxFrom(values, i + 1, IF FGt(values[i], maxVal) THEN values[i] ELSE maxVal)

\* findMinMaxFromValues for a non-empty slice
findMinMaxFromValues(values) ==
    [minVal |-> MinFrom(values, 1, Num(MaxFloat64)),
     maxVal |-> MaxFrom(values, 1, Num(0 - MaxFloat64))]

\* mutant: bins[i] = minVal + i*binWidth
calculateEqualWidthBins_FromLowerEdge(minVal, maxVal, numBins) ==
    LET binWidth == FDivInt(FSub(maxVal, minVal), numBins)
    IN [i \in 1..numBins |->
          IF i = numBins THEN maxVal ELSE FAdd(minVal, FMulInt(binWidth, i - 1))]

\* bins[i] of the code is element i+1 of the result
calculateEqualWidthBins(minVal, maxVal, numBins) ==
    LET binWidth == FDivInt(FSub(maxVal, minVal), numBins)
    IN [i \in 1..numBins |->
          IF i = numBins THEN maxVal ELSE FAdd(minVal, FMulInt(binWidth, i))]

\* mutant: the index of bin i is floor(n*i/binCount)
calculateQuantileBins_LowerRank(valuesForQuantileCalc, minHistVal, maxHistVal, numBins) ==
    LET numValues == Len(valuesForQuantileCalc)
        clamp(idx) == IF idx >= numValues THEN numValues - 1 ELSE IF idx < 0 THEN 0 ELSE idx
    IN IF numValues = 0 \/ numBins = 0
          THEN [i \in 1..numBins |-> Num(0)]
          ELSE [i \in 1..numBins |->
                  IF i = numBins THEN maxHistVal
                  ELSE valuesForQuantileCalc[clamp((numValues * (i - 1)) \div numBins) + 1]]

\* mutant: the bound is the value before the computed index
calculateQuantileBins_PrecedingRank(valuesForQuantileCalc, minHistVal, maxHistVal, numBins) ==
    LET numValues == Len(valuesForQuantileCalc)
        clamp(idx) == IF idx >= numValues THEN numValues - 1 ELSE IF idx < 0 THEN 0 ELSE idx
    IN IF numValues = 0 \/ numBins = 0
          THEN [i \in 1..numBins |-> Num(0)]
          ELSE [i \in 1..numBins |->
                  IF i = numBins THEN maxHistVal
                  ELSE valuesForQuantileCalc[clamp(((numValues * i) \div numBins) - 1) + 1]]

\* valuesForQuantileCalc is sorted; bins[i] of the code is element i+1
calculateQuantileBins(valuesForQuantileCalc, minHistVal, maxHistVal, numBins) ==
    LET numValues == Len(valuesForQuantileCalc)
        clamp(idx) == IF idx >= numValues THEN numValues - 1 ELSE IF idx < 0 THEN 0 ELSE idx
    IN IF numValues = 0 \/ numBins = 0
          THEN [i \in 1..numBins |-> Num(0)]
          ELSE [i \in 1..numBins |->
                  IF i = numBins THEN maxHistVal
                  ELSE valuesForQuantileCalc[clamp((numValues * i) \div numBins) + 1]]

RECURSIVE InsertSorted(_, _)
\* v put into the ascending sequence sorted
InsertSorted(sorted, v) ==
    IF sorted = <<>> THEN <<v>>
    ELSE IF FLt(v, Head(sorted)) THEN <<v>> \o sorted
    ELSE <<Head(sorted)>> \o InsertSorted(Tail(sorted), v)

RECURSIVE SortFloat64s(_)
\* sort.Float64s
SortFloat64s(values) ==
    IF values = <<>> THEN <<>>
    ELSE InsertSorted(SortFloat64s(Tail(values)), Head(values))

\* mutant: a value equal to the maximum is searched like any other value
BinIndex_NoMaximumCase(val, binUpperBounds, numberOfBins, effectiveMaxVal) ==
    LET hits == { i \in 0..(numberOfBins - 1) : FLt(val, binUpperBounds[i + 1]) }
    IN IF hits = {} THEN -1 ELSE CHOOSE i \in hits : \A j \in hits : i <= j

\* the bin index (0-based) the population pass finds for val, -1 for none
BinIndex(val, binUpperBounds, numberOfBins, effectiveMaxVal) ==
    IF FEq(val, effectiveMaxVal) THEN numberOfBins - 1
    ELSE LET hits == { i \in 0..(numberOfBins - 1) : FLt(val, binUpperBounds[i + 1]) }
         IN IF hits = {} THEN -1 ELSE CHOOSE i \in hits : \A j \in hits : i <= j

RECURSIVE PopulateFrom(_, _, _, _, _, _, _)
\* the population loop from index i on; acc holds BelowHistogramMinCount,
\* AboveHistogramMaxCount, tempBinCounts and the number of unbinned values
PopulateFrom(values, i, acc, binUpperBounds, numberOfBins, effectiveMinVal, effectiveMaxVal) ==
    IF i > Len(values) THEN acc
    ELSE
      LET val == values[i]
          idx == BinIndex(val, binUpperBounds, numberOfBins, effectiveMaxVal)
          next ==
             IF FLt(val, effectiveMinVal) THEN [acc EXCEPT !.below = @ + 1]
             ELSE IF FGt(val, effectiveMaxVal) THEN [acc EXCEPT !.above = @ + 1]
             ELSE IF idx # -1 THEN [acc EXCEPT !.counts[idx + 1] = @ + 1]
             ELSE [acc EXCEPT !.unbinned = @ + 1]
      IN PopulateFrom(values, i + 1, next, binUpperBounds, numberOfBins,
                      effectiveMinVal, effectiveMaxVal)

RECURSIVE SumSeq(_)
SumSeq(counts) == IF counts = <<>> THEN 0 ELSE Head(counts) + SumSeq(Tail(counts))

\* processHistogramData from "statistic.MinValueHistogram = effectiveMinVal" on
populateHistogram(statistic, values, noValueCount, totalParsedValues, numberOfBins, effectiveMinVal, effectiveMaxVal, binUpperBounds) ==
    LET acc == PopulateFrom(values, 1,
                            [below |-> 0, above |-> 0,
                             counts |-> [i \in 1..numberOfBins |-> 0], unbinned |-> 0],
                            binUpperBounds, numberOfBins, effectiveMinVal, effectiveMaxVal)
        totalBinnedCount == SumSeq(acc.counts)
        counted == [statistic EXCEPT !.MinValueHistogram = effectiveMinVal,
                                     !.MaxValueHistogram = effectiveMaxVal,
                                     !.BelowHistogramMinCount = acc.below,
                                     !.AboveHistogramMaxCount = acc.above]
        final == IF totalParsedValues > 0
                    THEN [counted EXCEPT
                            !.NoValuePercent = Percent(noValueCount, totalParsedValues),
                            !.BelowHistogramMinPercent = Percent(acc.below, totalParsedValues),
                            !.AboveHistogramMaxPercent = Percent(acc.above, totalParsedValues)]
                    ELSE counted
        entries == [i \in 1..numberOfBins |->
                      HistogramEntry(IF i = 1 THEN effectiveMinVal ELSE binUpperBounds[i - 1],
                                     IF i = numberOfBins THEN effectiveMaxVal ELSE binUpperBounds[i],
                                     acc.counts[i],
                                     IF totalBinnedCount > 0
                                        THEN Percent(acc.counts[i], totalBinnedCount)
                                        ELSE ZeroPercent)]
    IN HistogramResult(final, entries, "", acc.unbinned)

\* "adjustment := 0.0001 * math.Abs(effectiveMinVal); if adjustment == 0
\* { adjustment = 0.0001 }" in the units of the call
Adjustment(effectiveMinVal, scale) ==
    LET adjustment == FDivInt(FAbs(effectiveMinVal), 10000)
    IN IF FEq(adjustment, Num(0)) THEN Num(scale \div 10000) ELSE adjustment

\* the tail of the quantile branch: valuesForQuantileCalc is sorted and not empty
quantileSorted(statistic, values, noValueCount, totalParsedValues, numberOfBins, scale, valuesForQuantileCalc) ==
    LET firstVal == valuesForQuantileCalc[1]
        lastVal == valuesForQuantileCalc[Len(valuesForQuantileCalc)]
        adjustment == Adjustment(firstVal, scale)
        effectiveMinVal == IF FEq(firstVal, lastVal) THEN FSub(firstVal, adjustment) ELSE firstVal
        effectiveMaxVal == IF FEq(firstVal, lastVal) THEN FAdd(lastVal, adjustment) ELSE lastVal
    IN populateHistogram(statistic, values, noValueCount, totalParsedValues, numberOfBins,
                         effectiveMinVal, effectiveMaxVal,
                         calculateQuantileBins(valuesForQuantileCalc, effectiveMinVal,
                                               effectiveMaxVal, numberOfBins))

\* mutant: the filter range check is "filterMin > filterMax"
quantileFiltered_StrictCheck(statistic, values, noValueCount, totalParsedValues, numberOfBins, scale, filterMin, filterMax) ==
    LET valuesForQuantileCalc ==
           SelectSeq(values, LAMBDA val : FGe(val, filterMin) /\ FLe(val, filterMax))
        belowCount == Len(SelectSeq(values, LAMBDA val : FLt(val, filterMin)))
        aboveCount == Len(SelectSeq(values,
                             LAMBDA val : ~FLt(val, filterMin) /\ FGt(val, filterMax)))
        empty == [statistic EXCEPT !.MinValueHistogram = filterMin,
                                   !.MaxValueHistogram = filterMax,
                                   !.BelowHistogramMinCount = belowCount,
                                   !.AboveHistogramMaxCount = aboveCount]
    IN IF FGt(filterMin, filterMax)
          THEN HistogramResult(statistic, <<>>, "effective quantile calculation range", 0)
       ELSE IF valuesForQuantileCalc = <<>>
          THEN HistogramResult(
                  IF totalParsedValues > 0
                     THEN [empty EXCEPT
                             !.BelowHistogramMinPercent = Percent(belowCount, totalParsedValues),
                             !.AboveHistogramMaxPercent = Percent(aboveCount, totalParsedValues)]
                     ELSE empty,
                  <<>>, "", 0)
       ELSE quantileSorted(statistic, values, noValueCount, totalParsedValues, numberOfBins,
                           scale, SortFloat64s(valuesForQuantileCalc))

\* the quantile branch once the filter range is known
quantileFiltered(statistic, values, noValueCount, totalParsedValues, numberOfBins, scale, filterMin, filterMax) ==
    LET valuesForQuantileCalc ==
           SelectSeq(values, LAMBDA val : FGe(val, filterMin) /\ FLe(val, filterMax))
        belowCount == Len(SelectSeq(values, LAMBDA val : FLt(val, filterMin)))
        aboveCount == Len(SelectSeq(values,
                             LAMBDA val : ~FLt(val, filterMin) /\ FGt(val, filterMax)))
        empty == [statistic EXCEPT !.MinValueHistogram = filterMin,
                                   !.MaxValueHistogram = filterMax,
                                   !.BelowHistogramMinCount = belowCount,
                                   !.AboveHistogramMaxCount = aboveCount]
    IN IF FGe(filterMin, filterMax)
          THEN HistogramResult(statistic, <<>>, "effective quantile calculation range", 0)
       ELSE IF valuesForQuantileCalc = <<>>
          THEN HistogramResult(
                  IF totalParsedValues > 0
                     THEN [empty EXCEPT
                             !.BelowHistogramMinPercent = Percent(belowCount, totalParsedValues),
                             !.AboveHistogramMaxPercent = Percent(aboveCount, totalParsedValues)]
                     ELSE empty,
                  <<>>, "", 0)
       ELSE quantileSorted(statistic, values, noValueCount, totalParsedValues, numberOfBins,
                           scale, SortFloat64s(valuesForQuantileCalc))

\* the equal-width branch once the range before adjustment is known
equalWidthRange(statistic, values, noValueCount, totalParsedValues, numberOfBins, scale, minVal, maxVal) ==
    LET adjustment == Adjustment(minVal, scale)
        effectiveMinVal == IF FEq(minVal, maxVal) THEN FSub(minVal, adjustment) ELSE minVal
        effectiveMaxVal == IF FEq(minVal, maxVal) THEN FAdd(maxVal, adjustment) ELSE maxVal
    IN IF FGe(effectiveMinVal, effectiveMaxVal)
          THEN HistogramResult(statistic, <<>>, "effective histogram minimum value", 0)
          ELSE populateHistogram(statistic, values, noValueCount, totalParsedValues,
                                 numberOfBins, effectiveMinVal, effectiveMaxVal,
                                 calculateEqualWidthBins(effectiveMinVal, effectiveMaxVal,
                                                         numberOfBins))

\* processHistogramData for a non-empty slice, after findMinMaxFromValues
histogramOfValues(statistic, values, noValueCount, totalParsedValues, typeOfHistogram, numberOfBins, scale, minValueStr, maxValueStr) ==
    LET userMinProvided == minValueStr # ""
        userMaxProvided == maxValueStr # ""
        parsedMin == ParseFloat(minValueStr)
        parsedMax == ParseFloat(maxValueStr)
        minUserVal == IF userMinProvided THEN Scaled(parsedMin.val, scale) ELSE NaN
        maxUserVal == IF userMaxProvided THEN Scaled(parsedMax.val, scale) ELSE NaN
    IN IF userMinProvided /\ ~parsedMin.ok
          THEN HistogramResult(statistic, <<>>, "invalid minimum value provided", 0)
       ELSE IF userMaxProvided /\ ~parsedMax.ok
          THEN HistogramResult(statistic, <<>>, "invalid maximum value provided", 0)
       ELSE IF userMinProvided /\ userMaxProvided /\ FGe(minUserVal, maxUserVal)
          THEN HistogramResult(statistic, <<>>, "user-defined minimum value", 0)
       ELSE IF typeOfHistogram = "quantile"
          THEN quantileFiltered(statistic, values, noValueCount, totalParsedValues,
                                numberOfBins, scale,
                                IF userMinProvided THEN minUserVal ELSE statistic.MinValueAbsolute,
                                IF userMaxProvided THEN maxUserVal ELSE statistic.MaxValueAbsolute)
          ELSE equalWidthRange(statistic, values, noValueCount, totalParsedValues,
                               numberOfBins, scale,
                               IF userMinProvided THEN minUserVal ELSE statistic.MinValueAbsolute,
                               IF userMaxProvided THEN maxUserVal ELSE statistic.MaxValueAbsolute)

\* statistic with the overall minimum and maximum of the values
WithAbsolute(statistic, minmax) ==
    [statistic EXCEPT !.MinValueAbsolute = minmax.minVal, !.MaxValueAbsolute = minmax.maxVal]

\* the values (whole units) as float64 in the units of the call
ScaleValues(values, scale) == [i \in 1..Len(values) |-> Num(values[i] * scale)]

\* mutant: NoValuePercent is 100 also when nothing was parsed
emptyHistogram_AlwaysHundred(statistic, totalParsedValues) ==
    HistogramResult(
       [statistic EXCEPT
          !.MinValueAbsolute = NaN, !.MaxValueAbsolute = NaN,
          !.MinValueHistogram = NaN, !.MaxValueHistogram = NaN,
          !.NoValuePercent = Percent(1, 1)],
       <<>>, "", 0)

\* processHistogramData when findMinMaxFromValues fails on an empty slice
emptyHistogram(statistic, totalParsedValues) ==
    HistogramResult(
       [statistic EXCEPT
          !.MinValueAbsolute = NaN, !.MaxValueAbsolute = NaN,
          !.MinValueHistogram = NaN, !.MaxValueHistogram = NaN,
          !.NoValuePercent = IF totalParsedValues = 0 THEN ZeroPercent
                                                      ELSE Percent(1, 1)],
       <<>>, "", 0)

processHistogramData(allNonSentinelValues, noValueCount, totalParsedValues, typeOfHistogram, numberOfBins, minValueStr, maxValueStr) ==
    LET statistic == [ZeroStatistic EXCEPT !.NoValueCount = noValueCount,
                                           !.ValuesTotal = totalParsedValues]
        scale == 10000 * numberOfBins
    IN IF allNonSentinelValues = <<>>
          THEN emptyHistogram(statistic, totalParsedValues)
          ELSE histogramOfValues(
                  WithAbsolute(statistic,
                               findMinMaxFromValues(ScaleValues(allNonSentinelValues, scale))),
                  ScaleValues(allNonSentinelValues, scale), noValueCount, totalParsedValues,
                  typeOfHistogram, numberOfBins, scale, minValueStr, maxValueStr)

(***************************************************************************)
(* Inputs of the histogram engine.                                         *)
(***************************************************************************)
\* longest value list drawn from HistogramValues
MaxValues == 3
\* largest number of bins of the drawn inputs
MaxBins == 3

\* the values (whole units) the lists are drawn from
HistogramValues == {-3, 3, 5}

HistogramInput(values, noValueCount, typeOfHistogram, numberOfBins, minValueStr, maxValueStr) ==
    [values |-> values, noValueCount |-> noValueCount,
     totalParsedValues |-> Len(values) + noValueCount,
     typeOfHistogram |-> typeOfHistogram, numberOfBins |-> numberOfBins,
     minValueStr |-> minValueStr, maxValueStr |-> maxValueStr]

HistogramTypes == {"standard", "quantile"}

\* as collectAllNonSentinelValues delivers them: totalParsedValues counts
\* the values and the sentinels
HistogramInputs ==
    { HistogramInput(values, noValueCount, typeOfHistogram, numberOfBins, minValueStr, maxValueStr) :
         values \in SeqsUpTo(HistogramValues, MaxValues), noValueCount \in {0, 1},
         typeOfHistogram \in HistogramTypes, numberOfBins \in 1..MaxBins,
         minValueStr \in UserValueStrings, maxValueStr \in UserValueStrings }
    \cup
    { HistogramInput(values, 0, typeOfHistogram, 5, "", "") :
         values \in { <<1, 2, 3, 4, 5, 6, 7, 8, 9, 10>>, <<10, 3, 8, 1, 6, 4, 2, 9, 7, 5>>,
                      <<5, 5, 5>>, <<0, 0>> },
         typeOfHistogram \in HistogramTypes }

\* one call of processHistogramData
histogramRequest ==
    /\ pc = "histogram"
    /\ pc' = "histogramDone"
    /\ response' =
          LET in == response.input
          IN [op |-> "histogram", input |-> in,
              result |-> processHistogramData(in.values, in.noValueCount, in.totalParsedValues,
                                              in.typeOfHistogram, in.numberOfBins,
                                              in.minValueStr, in.maxValueStr)]
    /\ UNCHANGED <<statistics, repoIdx, pending, readLog, Repository, inserted, lastInsert>>

(***************************************************************************)
(* Request counters and logStatistics.  The handlers run in goroutines of  *)
(* the server, logStatistics in the main goroutine; each atomic operation  *)
(* is one step.  Of the ten counters the two of the point handlers are     *)
(* followed.                                                               *)
(***************************************************************************)
\* requests counted per handler, and calls of logStatistics
MaxRequests == 2
MaxLogs == 2

\* the counters PointRequests and UTMPointRequests, the position of
\* logStatistics with its locals currentPointRequests and
\* currentUTMPointRequests, the values its calls logged and, for the
\* properties, the increments performed
Statistics(pointRequests, utmPointRequests, line, currentPoint, currentUTMPoint, logged, added, calls) ==
    [PointRequests |-> pointRequests, UTMPointRequests |-> utmPointRequests, line |-> line,
     currentPointRequests |-> currentPoint, currentUTMPointRequests |-> currentUTMPoint,
     logged |-> logged, added |-> added, calls |-> calls]

\* the counters are not followed
NoStatistics == [line |-> "none"]

\* pointRequest: atomic.AddUint64(&PointRequests, 1)
pointRequestCounted ==
    /\ pc = "statistics"
    /\ statistics.added.PointRequests < MaxRequests
    /\ statistics' = [statistics EXCEPT !.PointRequests = @ + 1,
                                        !.added.PointRequests = @ + 1]
    /\ UNCHANGED <<pc, repoIdx, pending, readLog, Repository, inserted, lastInsert, response>>

\* utmPointRequest: atomic.AddUint64(&UTMPointRequests, 1)
utmPointRequestCounted ==
    /\ pc = "statistics"
    /\ statistics.added.UTMPointRequests < MaxRequests
    /\ statistics' = [statistics EXCEPT !.UTMPointRequests = @ + 1,
                                        !.added.UTMPointRequests = @ + 1]
    /\ UNCHANGED <<pc, repoIdx, pending, readLog, Repository, inserted, lastInsert, response>>

\* currentPointRequests := atomic.LoadUint64(&PointRequests)
logStatisticsLoadPoint ==
    /\ pc = "statistics"
    /\ statistics.line = "idle"
    /\ statistics.calls < MaxLogs
    /\ statistics' = [statistics EXCEPT !.line = "loadUTMPoint",
                                        !.calls = @ + 1,
                                        !.currentPointRequests = statistics.PointRequests]
    /\ UNCHANGED <<pc, repoIdx, pending, readLog, Repository, inserted, lastInsert, response>>

\* currentUTMPointRequests := atomic.LoadUint64(&UTMPointRequests)
logStatisticsLoadUTMPoint ==
    /\ pc = "statistics"
    /\ statistics.line = "loadUTMPoint"
    /\ statistics' = [statistics EXCEPT !.line = "storePoint",
                                        !.currentUTMPointRequests = statistics.UTMPointRequests]
    /\ UNCHANGED <<pc, repoIdx, pending, readLog, Repository, inserted, lastInsert, response>>

\* atomic.StoreUint64(&PointRequests, 0)
logStatisticsStorePoint ==
    /\ pc = "statistics"
    /\ statistics.line = "storePoint"
    /\ statistics' = [statistics EXCEPT !.line = "storeUTMPoint", !.PointRequests = 0]
    /\ UNCHANGED <<pc, repoIdx, pending, readLog, Repository, inserted, lastInsert, response>>

\* atomic.StoreUint64(&UTMPointRequests, 0)
logStatisticsStoreUTMPoint ==
    /\ pc = "statistics"
    /\ statistics.line = "storeUTMPoint"
    /\ statistics' = [statistics EXCEPT !.line = "log", !.UTMPointRequests = 0]
    /\ UNCHANGED <<pc, repoIdx, pending, readLog, Repository, inserted, lastInsert, response>>

\* slog.Info("load statistics", ...) and the return of logStatistics
logStatisticsLog ==
    /\ pc = "statistics"
    /\ statistics.line = "log"
    /\ statistics' =
          [statistics EXCEPT
             !.line = "idle",
             !.logged = Append(@, [PointRequests |-> statistics.currentPointRequests,
                                   UTMPointRequests |-> statistics.currentUTMPointRequests])]
    /\ UNCHANGED <<pc, repoIdx, pending, readLog, Repository, inserted, lastInsert, response>>

NoResponse == [op |-> "none"]

Init ==
    /\ pc = "build"
    /\ repoIdx = 1
    /\ pending = <<>>
    /\ readLog = <<>>
    /\ Repository = [k \in {} |-> EmptyTile]
    /\ inserted = <<>>
    /\ lastInsert = ""
    /\ statistics = NoStatistics
    /\ response = NoResponse

Next ==
    \/ ReadStateRepository
    \/ ReadStateRepositoryFails
    \/ InsertEntry
    \/ FinishBuild
    \/ utmPointRequest
    \/ pointRequest
    \/ processPoint

Spec == Init /\ [][Next]_vars

\* the histogram engine applied to each of its inputs
InitHistogram ==
    /\ pc = "histogram"
    /\ repoIdx = 1
    /\ pending = <<>>
    /\ readLog = <<>>
    /\ Repository = [k \in {} |-> EmptyTile]
    /\ inserted = <<>>
    /\ lastInsert = ""
    /\ statistics = NoStatistics
    /\ \E in \in HistogramInputs : response = [op |-> "histogramInput", input |-> in]

NextHistogram == histogramRequest

SpecHistogram == InitHistogram /\ [][NextHistogram]_vars

\* calculateElevationProfile applied to each request, over a built repository
InitProfile ==
    /\ pc = "profile"
    /\ repoIdx = NumRepos + 1
    /\ pending = <<>>
    /\ readLog = <<>>
    /\ Repository \in ProfileRepositories
    /\ inserted = <<>>
    /\ lastInsert = ""
    /\ statistics = NoStatistics
    /\ \E request \in ProfileRequests : response = [op |-> "profileRequest", request |-> request]

NextProfile == elevationprofileRequest

SpecProfile == InitProfile /\ [][NextProfile]_vars

\* coordinates and files getElevationFromUTM is called with
RasterEastings == {436999, 437000, 437400, 437499, 437500, 437999, 438000}
RasterNorthings == {5614999, 5615000, 5615500, 5615501, 5615600, 5616000, 5616001}
RasterFiles == DOMAIN FileSystem \cup {"dgm1_32_999_5615_xx.tif"}

\* one call of getElevationFromUTM; read holds the pixels it read
elevationFromUTMCall ==
    /\ pc = "raster"
    /\ pc' = "rasterDone"
    /\ response' =
          LET in == response
          IN [op |-> "raster", xUTM |-> in.xUTM, yUTM |-> in.yUTM, filename |-> in.filename,
              result |-> getElevationFromUTM(in.xUTM, in.yUTM, in.filename),
              read |-> IF FileExists(in.filename)
                          THEN samplePixel(in.xUTM, in.yUTM, FileSystem[in.filename],
                                           FileSystem[in.filename].gt).read
                          ELSE <<>>]
    /\ UNCHANGED <<statistics, repoIdx, pending, readLog, Repository, inserted, lastInsert>>

InitRaster ==
    /\ pc = "raster"
    /\ repoIdx = NumRepos + 1
    /\ pending = <<>>
    /\ readLog = <<>>
    /\ Repository \in ProfileRepositories
    /\ inserted = <<>>
    /\ lastInsert = ""
    /\ statistics = NoStatistics
    /\ \E xUTM \in RasterEastings, yUTM \in RasterNorthings, filename \in RasterFiles :
          response = [op |-> "rasterCall", xUTM |-> xUTM, yUTM |-> yUTM, filename |-> filename]

NextRaster == elevationFromUTMCall

SpecRaster == InitRaster /\ [][NextRaster]_vars

\* the server is listening and the main goroutine waits in its loop: the
\* counters are 0 and logStatistics is not running
InitStatistics ==
    /\ pc = "statistics"
    /\ repoIdx = NumRepos + 1
    /\ pending = <<>>
    /\ readLog = <<>>
    /\ Repository \in ProfileRepositories
    /\ inserted = <<>>
    /\ lastInsert = ""
    /\ response = NoResponse
    /\ statistics = Statistics(0, 0, "idle", 0, 0, <<>>,
                               [PointRequests |-> 0, UTMPointRequests |-> 0], 0)

NextStatistics ==
    \/ pointRequestCounted
    \/ utmPointRequestCounted
    \/ logStatisticsLoadPoint
    \/ logStatisticsLoadUTMPoint
    \/ logStatisticsStorePoint
    \/ logStatisticsStoreUTMPoint
    \/ logStatisticsLog

SpecStatistics == InitStatistics /\ [][NextStatistics]_vars

\* addElevationToGPX applied to each document, over a built repository
InitGPX ==
    /\ pc = "gpx"
    /\ repoIdx = NumRepos + 1
    /\ pending = <<>>
    /\ readLog = <<>>
    /\ Repository \in ProfileRepositories
    /\ inserted = <<>>
    /\ lastInsert = ""
    /\ statistics = NoStatistics
    /\ \E gpxData \in GPXDocuments : response = [op |-> "gpxDocument", gpxData |-> gpxData]

NextGPX == gpxRequest

SpecGPX == InitGPX /\ [][NextGPX]_vars

(***************************************************************************)
(* Properties of the samplers.                                             *)
(***************************************************************************)
\* the last response carries a sampler result
HasResult == "result" \in DOMAIN response

\* zone and projected coordinate the sampler of the last response worked at
SampleZone == IF response.op = "utmpoint" THEN response.zone ELSE response.resolved.zone
SampleX == IF response.op = "utmpoint" THEN response.x ELSE response.resolved.x
SampleY == IF response.op = "utmpoint" THEN response.y ELSE response.resolved.y

\* the sampler of the last response got past the tile resolution
Sampling == HasResult /\ (response.op = "utmpoint" \/ response.resolved.err = "")

Last(seq) == seq[Len(seq)]

\* C1: a successful result of getElevationForUTMPoint / getElevationForPoint
\* never carries the missing-data sentinel -9999: when all three variants
\* yield the sentinel the sampler returns an error.
C1_SuccessNeverSentinel ==
    (HasResult /\ response.result.err = "")
       => ~(response.result.elevation < NoDataThreshold)

\* C2: a NoData error of getElevationFromUTM is reported only after every
\* existing overlap variant of the cell has been sampled.
C2_NoDataAfterAllVariants ==
    (Sampling /\ response.result.err = "NoData value")
       => \A k \in 1..3 :
             TileHash(SampleX, SampleY, SampleZone, k) \in DOMAIN Repository
                => \E i \in 1..Len(response.result.sampled) : response.result.sampled[i] = k

\* C3: on success the returned tile is the repository record of the variant
\* sampled last, and the returned elevation is the value of that tile's
\* raster at the sampled coordinate.
C3_TileOfReturnedElevation ==
    (Sampling /\ response.result.err = "")
       => LET r == response.result
              key == TileHash(SampleX, SampleY, SampleZone, Last(r.sampled))
          IN /\ r.sampled # <<>>
             /\ key \in DOMAIN Repository
             /\ r.tile = Repository[key]
             /\ getElevationFromUTM(SampleX, SampleY, r.tile.Path) = ElevationResult(r.elevation, "")

\* C3 witness: the primary tile yielded the sentinel and the secondary tile
\* yielded 120.5, which is returned with the secondary tile.
C3_Witness ==
    /\ Sampling
    /\ response.result.err = ""
    /\ response.result.sampled = <<1, 2>>
    /\ response.result.elevation = 1205
    /\ response.result.tile = Repository[CellA \o "_2"]
    /\ Repository[CellA] # Repository[CellA \o "_2"]

(***************************************************************************)
(* Properties of the repository build.                                     *)
(***************************************************************************)
Cells == { e.Index : e \in Entries }

\* the records with primary key K, in the order they were inserted
InsertedAt(K) == SelectSeq(inserted, LAMBDA e : e.Index = K)

RECURSIVE Flatten(_)
Flatten(lists) == IF lists = <<>> THEN <<>> ELSE Head(lists) \o Flatten(Tail(lists))

\* C4: the build processes the lists in the order read and their records in
\* list order; among the records with primary key K the first is stored
\* under K, the second under K_2, the third under K_3, and a fourth or later
\* record replaces the entry under K_3.
C4_InsertionOrder ==
    pc = "build" =>
       /\ Flatten(readLog) = inserted \o pending
       /\ \A K \in Cells :
             LET s == InsertedAt(K)
             IN /\ Len(s) >= 1 => (K \in DOMAIN Repository /\ Repository[K] = s[1])
                /\ Len(s) >= 2 => ((K \o "_2") \in DOMAIN Repository
                                      /\ Repository[K \o "_2"] = s[2])
                /\ Len(s) >= 3 => ((K \o "_3") \in DOMAIN Repository
                                      /\ Repository[K \o "_3"] = s[Len(s)])

\* C4 witness: a fourth record with key K has replaced the third under K_3.
C4_Witness ==
    /\ pc = "build"
    /\ Len(InsertedAt(CellA)) = 4
    /\ InsertedAt(CellA)[3] # InsertedAt(CellA)[4]
    /\ Repository[CellA \o "_3"] = InsertedAt(CellA)[4]
    /\ Len(readLog) = 2

\* C5: the repository holds only the keys K, K_2, K_3 of grid cells, and
\* K_3 present implies K_2 present implies K present.
C5_AtMostThreeVariants ==
    /\ DOMAIN Repository \subseteq UNION { {K, K \o "_2", K \o "_3"} : K \in Cells }
    /\ \A K \in Cells :
          /\ (K \o "_3") \in DOMAIN Repository => (K \o "_2") \in DOMAIN Repository
          /\ (K \o "_2") \in DOMAIN Repository => K \in DOMAIN Repository

\* C5 witness: four records with the same key were inserted and the cell
\* holds exactly its three variants.
C5_Witness ==
    /\ Len(InsertedAt(CellA)) = 4
    /\ DOMAIN Repository = {CellA, CellA \o "_2", CellA \o "_3"}

(***************************************************************************)
(* Properties of the tile lookup.                                          *)
(***************************************************************************)
\* C6: the variant-1 key is the same for two coordinates exactly when they
\* have the same zone and the same 1 km cell; variants 2 and 3 are that key
\* suffixed _2 and _3; the lookup finds a tile exactly when the key is in
\* the repository and then returns the record stored for that cell.
C6_KeyOfCell ==
    \A z1 \in Zones, e1 \in Eastings, n1 \in Northings :
       /\ \A z2 \in Zones, e2 \in Eastings, n2 \in Northings :
             (TileHash(e1, n1, z1, 1) = TileHash(e2, n2, z2, 1))
                <=> (z1 = z2 /\ FloorDiv(e1, 1000) = FloorDiv(e2, 1000)
                             /\ FloorDiv(n1, 1000) = FloorDiv(n2, 1000))
       /\ \A v \in 1..3 :
             LET t == getGeotiffTile(e1, n1, z1, v)
                 suffix == IF v = 1 THEN "" ELSE IF v = 2 THEN "_2" ELSE "_3"
             IN /\ t.hash = TileHash(e1, n1, z1, 1) \o suffix
                /\ t.found <=> t.hash \in DOMAIN Repository
                /\ t.found => (t.tile = Repository[t.hash]
                                 /\ t.tile.Index = TileHash(e1, n1, z1, 1))
                /\ ~t.found => t.tile = EmptyTile

\* C6 witness: a request in the cell east of a stored cell finds no tile,
\* while two different coordinates inside the stored cell share its key.
C6_Witness ==
    /\ response.op = "utmpoint"
    /\ HasResult
    /\ response.x = 438000
    /\ response.result.err = "tile not found"
    /\ response.result.lookups = <<"32_438_5615">>
    /\ TileHash(437000, response.y, response.zone, 1) \in DOMAIN Repository
    /\ TileHash(437999, response.y, response.zone, 1) = TileHash(437000, response.y, response.zone, 1)

\* the last response carries a result of getTileUTM
HasResolved == "resolved" \in DOMAIN response

\* C7: getTileUTM returns the primary-zone tile with the primary zone and
\* its coordinates, without a neighbor lookup, when the primary key is
\* found; otherwise the neighbor-zone tile with the neighbor zone and the
\* coordinates transformed into it; an error and no tile when both miss.
C7_PrimaryThenNeighbor ==
    (HasResolved /\ Len(response.resolved.transforms) > 0)
       => LET r == response.resolved
              z == deriveZones(response.lon)
              p == transformLonLatToUTM(response.lon, response.lat, z.targetEPSG)
              q == transformLonLatToUTM(response.lon, response.lat, z.neighborTargetEPSG)
              pk == TileHash(p.x, p.y, z.zone, 1)
              nk == TileHash(q.x, q.y, z.neighborZone, 1)
          IN p.ok =>
               /\ pk \in DOMAIN Repository
                    => (r.err = "" /\ r.tile = Repository[pk] /\ r.zone = z.zone
                          /\ r.x = p.x /\ r.y = p.y /\ r.lookups = <<pk>>)
               /\ (pk \notin DOMAIN Repository /\ nk \in DOMAIN Repository)
                    => (r.err = "" /\ r.tile = Repository[nk] /\ r.zone = z.neighborZone
                          /\ r.x = q.x /\ r.y = q.y /\ r.lookups = <<pk, nk>>)
               /\ (pk \notin DOMAIN Repository /\ nk \notin DOMAIN Repository)
                    => (r.err # "" /\ r.tile = EmptyTile /\ r.lookups = <<pk, nk>>)

\* C7 witness: at longitude 12.00 the zone-33 key misses and the tile is
\* found in neighbor zone 32.
C7_Witness ==
    /\ HasResolved
    /\ response.lon = 1200
    /\ response.resolved.err = ""
    /\ response.resolved.zone = 32
    /\ response.resolved.lookups = <<"33_290_5615", CellB>>
    /\ response.resolved.tile.Index = CellB

\* C8: longitudes [0,6), [6,12), [12,18) give zones 31, 32, 33 with
\* projection 25800+zone; the neighbor is zone+1 in the upper half of the
\* band and zone-1 in the lower half, with projection 25800+neighbor; any
\* other longitude gives an error and no lookup.
C8_ZoneBands ==
    HasResolved
       => LET r == response.resolved
              lon == response.lon
              primary == 31 + (lon \div 600)
              neighbor == IF lon % 600 >= 300 THEN primary + 1 ELSE primary - 1
          IN IF lon >= 0 /\ lon < 1800
                THEN /\ Len(r.transforms) >= 1
                     /\ r.transforms[1] = 25800 + primary
                     /\ Len(r.lookups) >= 1 => r.lookups[1] =
                           TileHash(transformLonLatToUTM(lon, response.lat, 25800 + primary).x,
                                    transformLonLatToUTM(lon, response.lat, 25800 + primary).y,
                                    primary, 1)
                     /\ Len(r.transforms) = 2 => r.transforms[2] = 25800 + neighbor
                     /\ Len(r.lookups) = 2 => r.lookups[2] =
                           TileHash(transformLonLatToUTM(lon, response.lat, 25800 + neighbor).x,
                                    transformLonLatToUTM(lon, response.lat, 25800 + neighbor).y,
                                    neighbor, 1)
                     /\ r.err = "" => r.zone \in {primary, neighbor}
                ELSE /\ r.err = "invalid longitude"
                     /\ r.lookups = <<>>
                     /\ r.transforms = <<>>
                     /\ r.tile = EmptyTile

\* C8 witness: longitude 9.00 is in the upper half of band [6,12): primary
\* zone 32 misses and neighbor zone 33 is tried.
C8_Witness ==
    /\ HasResolved
    /\ response.lon = 900
    /\ response.resolved.transforms = <<25832, 25833>>
    /\ Len(response.resolved.lookups) = 2

(***************************************************************************)
(* Properties of the histogram engine (checked under SpecHistogram).       *)
(***************************************************************************)
\* the last response is a non-error result of processHistogramData
HistogramOK == response.op = "histogram" /\ response.result.err = ""

\* BinCount, and UpperBound in whole units, of the entries of the result
BinCounts == [i \in 1..Len(response.result.entries) |-> response.result.entries[i].BinCount]
UpperBounds ==
    [i \in 1..Len(response.result.entries) |->
        response.result.entries[i].UpperBound.v \div (10000 * response.input.numberOfBins)]

\* C9: in equal-width mode every non-error result accounts for each input
\* value exactly once: sum of BinCount + BelowHistogramMinCount +
\* AboveHistogramMaxCount = number of input values, whatever the bin count
\* and the user min/max overrides are.
C9_EqualWidthConservation ==
    (HistogramOK /\ response.input.typeOfHistogram = "standard")
       => SumSeq(BinCounts) + response.result.statistic.BelowHistogramMinCount
             + response.result.statistic.AboveHistogramMaxCount
          = Len(response.input.values)

\* the inputs of the quantile example: the values 1..10 (in two orders),
\* 5 bins, no overrides
QuantileExample ==
    /\ response.op = "histogram"
    /\ response.input.typeOfHistogram = "quantile"
    /\ response.input.values \in { <<1, 2, 3, 4, 5, 6, 7, 8, 9, 10>>,
                                   <<10, 3, 8, 1, 6, 4, 2, 9, 7, 5>> }
    /\ response.input.numberOfBins = 5
    /\ response.input.minValueStr = ""
    /\ response.input.maxValueStr = ""

\* C10 as stated: the quantile example yields the upper bounds
\* [2,4,6,8,10], each bin holding exactly 2 values.
C10_QuantileBoundsAsStated ==
    QuantileExample
       => /\ response.result.err = ""
          /\ UpperBounds = <<2, 4, 6, 8, 10>>
          /\ BinCounts = <<2, 2, 2, 2, 2>>

\* C10 amended: the quantile example yields the upper bounds
\* [3,5,7,9,10] (the sorted values at indices 2, 4, 6, 8 and the maximum),
\* each bin holding exactly 2 values.
C10_QuantileBalance ==
    QuantileExample
       => /\ response.result.err = ""
          /\ UpperBounds = <<3, 5, 7, 9, 10>>
          /\ BinCounts = <<2, 2, 2, 2, 2>>
          /\ response.result.entries[1].LowerBound = Num(1 * 10000 * 5)

\* C10 witness: the quantile example was computed from the unsorted list.
C10_Witness ==
    /\ QuantileExample
    /\ response.input.values = <<10, 3, 8, 1, 6, 4, 2, 9, 7, 5>>
    /\ response.result.err = ""
    /\ Len(response.result.entries) = 5

\* the call of the last response: its unit, mode, values and entries
CallScale == 10000 * response.input.numberOfBins
Standard == response.input.typeOfHistogram = "standard"
Quantile == response.input.typeOfHistogram = "quantile"
InputValues == { response.input.values[i] : i \in 1..Len(response.input.values) }
ResultEntries == response.result.entries
EffectiveMin == response.result.statistic.MinValueHistogram
EffectiveMax == response.result.statistic.MaxValueHistogram

\* smallest and largest input value, in the units of the call
DataMin == Num(CallScale * (CHOOSE v \in InputValues : \A w \in InputValues : v <= w))
DataMax == Num(CallScale * (CHOOSE v \in InputValues : \A w \in InputValues : v >= w))

\* each side: the user override if given, the data minimum/maximum otherwise
MergedMin ==
    IF response.input.minValueStr # ""
       THEN Scaled(ParseFloat(response.input.minValueStr).val, CallScale) ELSE DataMin
MergedMax ==
    IF response.input.maxValueStr # ""
       THEN Scaled(ParseFloat(response.input.maxValueStr).val, CallScale) ELSE DataMax

\* max(0.0001*|v|, 0.0001) in the units of the call, for a finite v
Widening(v) == IF v.v = 0 THEN CallScale \div 10000
               ELSE (IF v.v < 0 THEN 0 - v.v ELSE v.v) \div 10000

\* effectiveMin + i*(effectiveMax-effectiveMin)/binCount for the 1-based bin
\* i, the last bound being effectiveMax
EqualWidthBound(i) ==
    IF i = response.input.numberOfBins THEN EffectiveMax
    ELSE FAdd(EffectiveMin,
              FMulInt(FDivInt(FSub(EffectiveMax, EffectiveMin), response.input.numberOfBins), i))

\* the bounds follow the equal-width formula over the effective range
EqualWidthBounds ==
    /\ Len(ResultEntries) = response.input.numberOfBins
    /\ \A i \in 1..Len(ResultEntries) :
          /\ ResultEntries[i].UpperBound = EqualWidthBound(i)
          /\ (EffectiveMin.k = "num" /\ EffectiveMax.k = "num")
                => response.input.numberOfBins * (ResultEntries[i].UpperBound.v - EffectiveMin.v)
                     = i * (EffectiveMax.v - EffectiveMin.v)

\* the equal-width example: values 1..10, 5 bins, no overrides
EqualWidthExample ==
    /\ response.op = "histogram"
    /\ Standard
    /\ response.input.values \in { <<1, 2, 3, 4, 5, 6, 7, 8, 9, 10>>,
                                   <<10, 3, 8, 1, 6, 4, 2, 9, 7, 5>> }
    /\ response.input.numberOfBins = 5
    /\ response.input.minValueStr = ""
    /\ response.input.maxValueStr = ""

\* [2.8, 4.6, 6.4, 8.2, 10.0] in units of 1/50000
EqualWidthExampleBounds ==
    [i \in 1..Len(ResultEntries) |-> ResultEntries[i].UpperBound]
       = <<Num(140000), Num(230000), Num(320000), Num(410000), Num(500000)>>

IdenticalValues ==
    /\ response.op = "histogram"
    /\ response.input.values # <<>>
    /\ \A i \in 1..Len(response.input.values) :
          response.input.values[i] = response.input.values[1]
    /\ response.input.minValueStr = ""
    /\ response.input.maxValueStr = ""

\* the effective range is the value widened symmetrically by
\* max(0.0001*|v|, 0.0001)
WidenedRange ==
    /\ response.result.err = ""
    /\ FLt(EffectiveMin, EffectiveMax)
    /\ EffectiveMin = Num(DataMin.v - Widening(DataMin))
    /\ EffectiveMax = Num(DataMin.v + Widening(DataMin))

\* C12: for a non-empty list of identical values and no overrides
\* processHistogramData returns no error in either mode and reports the
\* value widened symmetrically by max(0.0001*|v|, 0.0001) as effective range.
C12_IdenticalValuesWidened == IdenticalValues => WidenedRange

\* the equal-width half of C12 (holds)
C12_EqualWidthWidened == (IdenticalValues /\ Standard) => WidenedRange

\* the quantile half of C12: the call of identical values ends with the
\* error of the filter range check
C12_QuantileRejected ==
    (IdenticalValues /\ Quantile)
       => response.result.err = "effective quantile calculation range"

\* exactly binCount entries, contiguous and ascending from the effective
\* minimum to the effective maximum (<= is the comparison of float64)
ContiguousEntries ==
    /\ Len(ResultEntries) = response.input.numberOfBins
    /\ ResultEntries[1].LowerBound = EffectiveMin
    /\ \A i \in 2..Len(ResultEntries) :
          ResultEntries[i].LowerBound = ResultEntries[i - 1].UpperBound
    /\ \A i \in 1..Len(ResultEntries) :
          FLe(ResultEntries[i].LowerBound, ResultEntries[i].UpperBound)
    /\ ResultEntries[Len(ResultEntries)].UpperBound = EffectiveMax

\* the user overrides of the call are absent or finite numbers
FiniteOverrides ==
    /\ response.input.minValueStr \in {"", "3", "5"}
    /\ response.input.maxValueStr \in {"", "3", "5"}

\* C13: every non-error histogram result with a non-empty entry list has
\* exactly binCount entries that are contiguous and ascending, from the
\* effective minimum to the effective maximum, in both modes.
C13_EntriesContiguous ==
    (HistogramOK /\ ResultEntries # <<>>) => ContiguousEntries

\* C13 restricted to calls whose overrides are absent or finite (holds)
C13_FiniteEntriesContiguous ==
    (HistogramOK /\ ResultEntries # <<>> /\ FiniteOverrides) => ContiguousEntries

\* a percentage kept as a fraction has the value p
PercentIs(percent, p) == percent.n = p * percent.d

\* C14: for an empty value list processHistogramData returns success with
\* no entries, below/above counts of zero and NaN min/max fields, whatever
\* the mode, the bin count and the min/max strings are; NoValuePercent is
\* 100 when totalParsed > 0 and 0 when totalParsed = 0.
C14_EmptyValues ==
    (response.op = "histogram" /\ response.input.values = <<>>)
       => /\ response.result.err = ""
          /\ ResultEntries = <<>>
          /\ response.result.statistic.BelowHistogramMinCount = 0
          /\ response.result.statistic.AboveHistogramMaxCount = 0
          /\ PercentIs(response.result.statistic.BelowHistogramMinPercent, 0)
          /\ PercentIs(response.result.statistic.AboveHistogramMaxPercent, 0)
          /\ response.result.statistic.MinValueAbsolute = NaN
          /\ response.result.statistic.MaxValueAbsolute = NaN
          /\ EffectiveMin = NaN
          /\ EffectiveMax = NaN
          /\ response.result.statistic.NoValueCount = response.input.noValueCount
          /\ PercentIs(response.result.statistic.NoValuePercent,
                       IF response.input.totalParsedValues > 0 THEN 100 ELSE 0)

\* C14 witness: an empty list of a file that held one sentinel, with
\* unparsable min/max strings, was answered without error.
C14_Witness ==
    /\ response.op = "histogram"
    /\ response.input.values = <<>>
    /\ response.input.totalParsedValues = 1
    /\ response.input.minValueStr = "abc"
    /\ response.input.maxValueStr = "NaN"
    /\ response.result.err = ""
    /\ PercentIs(response.result.statistic.NoValuePercent, 100)

\* both strings of the call are absent or parse as float64
OverridesParse ==
    /\ (response.input.minValueStr # "" => ParseFloat(response.input.minValueStr).ok)
    /\ (response.input.maxValueStr # "" => ParseFloat(response.input.maxValueStr).ok)

\* both user bounds are given and userMin >= userMax
UserRangeInverted ==
    /\ response.input.minValueStr # ""
    /\ response.input.maxValueStr # ""
    /\ FGe(MergedMin, MergedMax)

\* equal-width: the merged range, widened when its sides coincide, has
\* minimum >= maximum
EqualWidthRangeInverted ==
    /\ Standard
    /\ IF FEq(MergedMin, MergedMax) /\ MergedMin.k = "num"
          THEN FGe(Num(MergedMin.v - Widening(MergedMin)),
                   Num(MergedMax.v + Widening(MergedMin)))
          ELSE FGe(MergedMin, MergedMax)

\* quantile: the filter range has minimum >= maximum
QuantileFilterInverted == Quantile /\ FGe(MergedMin, MergedMax)

\* C15: for a non-empty value list processHistogramData returns an error
\* and no entries whenever both user bounds are given with
\* userMin >= userMax, or the equal-width effective minimum >= effective
\* maximum, or the quantile filter minimum >= filter maximum.
C15_InvertedRangeRejected ==
    (/\ response.op = "histogram"
     /\ response.input.values # <<>>
     /\ OverridesParse
     /\ (UserRangeInverted \/ EqualWidthRangeInverted \/ QuantileFilterInverted))
       => /\ response.result.err \in { "user-defined minimum value",
                                       "effective histogram minimum value",
                                       "effective quantile calculation range" }
          /\ ResultEntries = <<>>

\* C15 witness: a quantile call whose override "5" for the minimum equals
\* the data maximum was rejected by the filter range check.
C15_Witness ==
    /\ response.op = "histogram"
    /\ Quantile
    /\ response.input.values = <<3, 5>>
    /\ response.input.minValueStr = "5"
    /\ response.input.maxValueStr = ""
    /\ response.result.err = "effective quantile calculation range"
    /\ ResultEntries = <<>>

\* a percentage kept as a fraction equals 100*num/den
PercentOf(percent, num, den) == percent.n * den = 100 * num * percent.d

\* the sum of the BinPercent of the entries, for entries of one denominator
BinPercentSum ==
    [n |-> SumSeq([i \in 1..Len(ResultEntries) |-> ResultEntries[i].BinPercent.n]),
     d |-> ResultEntries[1].BinPercent.d]

\* the three percentages of the statistic relate to totalParsed
StatisticPercentages ==
    /\ PercentOf(response.result.statistic.NoValuePercent,
                 response.input.noValueCount, response.input.totalParsedValues)
    /\ PercentOf(response.result.statistic.BelowHistogramMinPercent,
                 response.result.statistic.BelowHistogramMinCount,
                 response.input.totalParsedValues)
    /\ PercentOf(response.result.statistic.AboveHistogramMaxPercent,
                 response.result.statistic.AboveHistogramMaxCount,
                 response.input.totalParsedValues)

\* each BinPercent relates to the sum of all BinCounts; together they are 100
BinPercentages ==
    SumSeq(BinCounts) > 0
       => /\ \A i \in 1..Len(ResultEntries) :
                /\ PercentOf(ResultEntries[i].BinPercent, ResultEntries[i].BinCount,
                             SumSeq(BinCounts))
                /\ ResultEntries[i].BinPercent.d = BinPercentSum.d
          /\ PercentIs(BinPercentSum, 100)

\* C16: in every non-error histogram result with totalParsed > 0,
\* NoValuePercent = 100*missingCount/totalParsed, BelowHistogramMinPercent =
\* 100*belowCount/totalParsed, AboveHistogramMaxPercent =
\* 100*aboveCount/totalParsed, and each BinPercent = 100*BinCount/(sum of
\* all BinCounts), the BinPercents adding up to 100 when a value was binned.
C16_Percentages ==
    (HistogramOK /\ response.input.totalParsedValues > 0)
       => (StatisticPercentages /\ BinPercentages)

\* C16 for the results that carry entries or come from an empty list (holds)
C16_PercentagesOfBinnedResults ==
    (HistogramOK /\ response.input.totalParsedValues > 0
        /\ (ResultEntries # <<>> \/ response.input.values = <<>>))
       => (StatisticPercentages /\ BinPercentages)

(***************************************************************************)
(* Properties of the elevation profile (checked under SpecProfile).        *)
(***************************************************************************)
\* the last response is a profile calculateElevationProfile returned with
\* a nil error
ProfileOK ==
    /\ response.op = "profile"
    /\ "profileResult" \in DOMAIN response
    /\ response.profileResult.err = ""

Profile == response.profileResult.profile
Visited == response.profileResult.visited
TotalDistance == response.profileResult.distance

\* the profile is ordered by strictly ascending Distance
StrictlyAscending ==
    \A i \in 1..Len(Profile) : \A j \in 1..Len(Profile) :
       i < j => FracLt(Profile[i].Distance, Profile[j].Distance)

Steps == response.profileResult.steps
StepSize == response.profileResult.stepSize
MaxPoints == response.request.maxTotalProfilePoints
MinStep == response.request.minStepSize

\* C18: idealStep = distance/(maxTotalPoints-1); if idealStep < minStepSize
\* the step is minStepSize and the segment count is ceil(distance/
\* minStepSize), otherwise the step is idealStep and the segment count is
\* maxTotalPoints-1; sample i is taken at distance i*step, except the last
\* one, which is taken at the total distance (distance 100, maxTotalPoints
\* 10, minStepSize 5: 9 segments, 10 sample positions).
C18_SamplingGrid ==
    ProfileOK
       => /\ IF FracLt(Frac(TotalDistance, MaxPoints - 1), Frac(MinStep, 1))
                THEN /\ FracEq(StepSize, Frac(MinStep, 1))
                     /\ Steps * MinStep >= TotalDistance
                     /\ (Steps - 1) * MinStep < TotalDistance
                ELSE /\ FracEq(StepSize, Frac(TotalDistance, MaxPoints - 1))
                     /\ Steps = MaxPoints - 1
          /\ Len(Visited) = Steps + 1
          /\ \A i \in 0..(Steps - 1) :
                FracEq(Visited[i + 1].Distance, Frac(i * StepSize.n, StepSize.d))
          /\ FracEq(Visited[Steps + 1].Distance, Frac(TotalDistance, 1))
          /\ (TotalDistance = 100 /\ MaxPoints = 10 /\ MinStep = 5)
                => (Steps = 9 /\ Len(Visited) = 10)

\* C18 witness: a minimum step of 400 m over 900 m gave 3 segments, sampled
\* at 0, 400, 800 and 900 m.
C18_Witness ==
    /\ ProfileOK
    /\ TotalDistance = 900
    /\ MaxPoints = 10
    /\ MinStep = 400
    /\ Steps = 3
    /\ [i \in 1..Len(Visited) |-> Visited[i].Distance.n \div Visited[i].Distance.d]
          = <<0, 400, 800, 900>>

\* the example of C18 was computed: 9 segments, 10 sample positions
C18_ExampleReached ==
    /\ ProfileOK
    /\ TotalDistance = 100
    /\ MaxPoints = 10
    /\ MinStep = 5
    /\ Steps = 9
    /\ Len(Visited) = 10

\* the request of the last response passed verification and its two points differ
ProfileCalculated ==
    /\ response.op = "profile"
    /\ response.code # "14060"
    /\ response.request.pointA # response.request.pointB

\* the lookup of the sampler at a visited position fails
LookupFails(position) ==
    getElevationForUTMPoint(response.request.pointA.Zone,
                            position.Easting, position.Northing).err # ""

\* the visited positions whose lookup succeeds, in sampling order
Succeeded == SelectSeq(Visited, LAMBDA position : ~LookupFails(position))

C19_NoneSucceeded ==
    /\ ProfileCalculated
    /\ response.profileResult.err = ""
    /\ Len(Visited) >= 2
    /\ Profile = <<>>

(***************************************************************************)
(* Properties of the process (checked under Spec).                         *)
(***************************************************************************)
\* buildRepository has read every state repository file and inserted
\* every record
BuildComplete == repoIdx > NumRepos /\ pending = <<>>

\* C20: the repository is completely built before requests are served (a
\* failed build ends the process without any response), and while requests
\* are served no step writes to the repository: it keeps the value it had
\* when the build finished.
C20_RepositoryImmutable ==
    /\ [](pc = "serve" => BuildComplete)
    /\ [](response # NoResponse => pc = "serve")
    /\ [][pc = "build" \/ (pc' = pc /\ Repository' = Repository)]_vars
    /\ [][pc = "build" => response' = NoResponse]_vars

\* C20 witness: a request was answered from a repository holding a cell in
\* all three variants.
C20_Witness ==
    /\ pc = "serve"
    /\ BuildComplete
    /\ response # NoResponse
    /\ {CellA, CellA \o "_2", CellA \o "_3"} \subseteq DOMAIN Repository

(***************************************************************************)
(* Further properties of the samplers (checked under Spec).                *)
(***************************************************************************)
\* C21: one point query samples at most three rasters, at most one per
\* variant and in the order 1, 2, 3, never the same variant twice, and ends
\* with a value or an error.
C21_AtMostThreeSamples ==
    HasResult
       => /\ response.result.sampled \in { <<>>, <<1>>, <<1, 2>>, <<1, 2, 3>> }
          /\ Len(response.result.sampled) <= 3
          /\ \A i \in 1..Len(response.result.sampled) :
                \A j \in 1..Len(response.result.sampled) :
                   i < j => response.result.sampled[i] < response.result.sampled[j]
          /\ response.result.err \in STRING

\* C21 witness: a UTM point query went through all three variants.
C21_Witness ==
    /\ HasResult
    /\ response.op = "utmpoint"
    /\ response.result.sampled = <<1, 2, 3>>

\* a geographic point query went through all three variants
C21_PointWitness ==
    /\ HasResult
    /\ response.op = "point"
    /\ response.result.sampled = <<1, 2, 3>>


(***************************************************************************)
(* Properties of addElevationToGPX.                                        *)
(***************************************************************************)
GPXDone == pc = "gpxDone" /\ response.op = "gpx"

\* the points of a document in the order of the three loops
AllPoints(gpxData) ==
    gpxData.Waypoints \o gpxData.Routes[1].Points \o gpxData.Tracks[1].Segments[1].Points

GPXIn == AllPoints(response.gpxData)
GPXOut == AllPoints(response.result.gpxData)
GPXLookup(point) == getElevationForPoint(point.Longitude, point.Latitude)
Tagged == { i \in 1..Len(GPXIn) : GPXLookup(GPXIn[i]).err = "" }
Attribution(tile) == "ele: " \o tile.Source \o ", " \o tile.Actuality

\* C22: addElevationToGPX returns nil and visits every waypoint, route point
\* and track point once, in order; gpxPoints is the number of points visited,
\* dgmPoints the number of points whose elevation was set, dgmPoints <=
\* gpxPoints; a point whose lookup fails keeps its elevation and description,
\* and every later point is processed all the same.
C22_EveryPointVisited ==
    GPXDone
       => /\ response.result.err = ""
          /\ response.result.visited
                = [i \in 1..Len(GPXIn) |-> <<GPXIn[i].Longitude, GPXIn[i].Latitude>>]
          /\ response.result.gpxPoints = Len(response.result.visited)
          /\ response.result.dgmPoints = Cardinality(Tagged)
          /\ response.result.dgmPoints <= response.result.gpxPoints
          /\ Len(GPXOut) = Len(GPXIn)
          /\ Len(response.result.gpxData.Waypoints) = Len(response.gpxData.Waypoints)
          /\ Len(response.result.gpxData.Routes[1].Points)
                = Len(response.gpxData.Routes[1].Points)
          /\ \A i \in 1..Len(GPXIn) :
                IF i \in Tagged
                   THEN /\ GPXOut[i].Elevation = SetValue(GPXLookup(GPXIn[i]).elevation)
                        /\ GPXOut[i].Description =
                              IF GPXIn[i].Description = ""
                                 THEN Attribution(GPXLookup(GPXIn[i]).tile)
                                 ELSE GPXIn[i].Description \o " "
                                         \o Attribution(GPXLookup(GPXIn[i]).tile)
                        /\ GPXOut[i].Longitude = GPXIn[i].Longitude
                        /\ GPXOut[i].Latitude = GPXIn[i].Latitude
                   ELSE GPXOut[i] = GPXIn[i]

\* a waypoint whose lookup fails keeps its own elevation, and the points of
\* the route and of the track after it are tagged
C22_Witness ==
    /\ GPXDone
    /\ Len(response.gpxData.Waypoints) = 2
    /\ 1 \notin Tagged
    /\ GPXIn[1].Elevation = SetValue(770)
    /\ GPXOut[1] = GPXIn[1]
    /\ Tagged = 2..Len(GPXIn)
    /\ Len(response.gpxData.Routes[1].Points) = 1
    /\ Len(response.gpxData.Tracks[1].Segments[1].Points) = 2
    /\ response.result.gpxPoints = 5
    /\ response.result.dgmPoints = 4
    /\ GPXOut[5].Description = "summit ele: DE-NI, 2017"
    /\ GPXOut[2].Description = "ele: DE-NW, 2024"


(***************************************************************************)
(* Quantile bounds and the population pass.                                *)
(***************************************************************************)
\* positions of the input values inside the filter range of quantile mode
FilteredPositions ==
    { i \in 1..Len(response.input.values) :
         /\ FGe(Num(CallScale * response.input.values[i]), MergedMin)
         /\ FLe(Num(CallScale * response.input.values[i]), MergedMax) }

\* element k (0-based) of the ascending-sorted filtered values, by its rank
SortedFiltered(k) ==
    CHOOSE v \in { response.input.values[i] : i \in FilteredPositions } :
       /\ Cardinality({ i \in FilteredPositions : response.input.values[i] < v }) <= k
       /\ k < Cardinality({ i \in FilteredPositions : response.input.values[i] <= v })

Clamped(idx, n) == IF idx >= n THEN n - 1 ELSE IF idx < 0 THEN 0 ELSE idx

QuantileBinned == HistogramOK /\ Quantile /\ ResultEntries # <<>>

\* C23: in quantile mode the upper bound of bin i (0-based) is the element
\* of the ascending-sorted filtered values at index floor(n*(i+1)/binCount)
\* clamped to [0, n-1], the last bound is the effective maximum, and the
\* bounds are non-decreasing.
C23_QuantileBounds ==
    QuantileBinned
       => LET n == Cardinality(FilteredPositions)
              binCount == response.input.numberOfBins
          IN /\ Len(ResultEntries) = binCount
             /\ \A i \in 0..(binCount - 2) :
                   ResultEntries[i + 1].UpperBound
                      = Num(CallScale * SortedFiltered(Clamped((n * (i + 1)) \div binCount, n)))
             /\ ResultEntries[binCount].UpperBound = EffectiveMax
             /\ \A i \in 1..(binCount - 1) :
                   FLe(ResultEntries[i].UpperBound, ResultEntries[i + 1].UpperBound)

\* three bins over the two values the filter leaves of three
C23_Witness ==
    /\ QuantileBinned
    /\ response.input.values = <<5, -3, 3>>
    /\ response.input.minValueStr = "3"
    /\ response.input.numberOfBins = 3
    /\ Cardinality(FilteredPositions) = 2
    /\ UpperBounds = <<3, 5, 5>>

\* the filtered values are identical: the last bound is the widened maximum
C23_IdenticalWitness ==
    /\ QuantileBinned
    /\ response.input.values = <<3, 3>>
    /\ response.input.maxValueStr = "5"
    /\ response.input.numberOfBins = 2
    /\ ResultEntries[1].UpperBound = Num(3 * CallScale)
    /\ ResultEntries[2].UpperBound = Num(3 * CallScale + Widening(Num(3 * CallScale)))


\* the input value at position i, in the units of the call
ValueAt(i) == Num(CallScale * response.input.values[i])
Positions == 1..Len(response.input.values)
Below(i) == FLt(ValueAt(i), EffectiveMin)
Above(i) == ~Below(i) /\ FGt(ValueAt(i), EffectiveMax)

\* the bins (1-based) whose upper bound is strictly greater than value i
BinsAbove(i) == { b \in 1..Len(ResultEntries) : FLt(ValueAt(i), ResultEntries[b].UpperBound) }

\* the bin the claim gives to a value inside the range; 0 if it has none
TargetBin(i) ==
    IF FEq(ValueAt(i), EffectiveMax) THEN Len(ResultEntries)
    ELSE IF BinsAbove(i) = {} THEN 0
    ELSE CHOOSE b \in BinsAbove(i) : \A c \in BinsAbove(i) : b <= c

Populated == HistogramOK /\ ResultEntries # <<>>

PopulationPass ==
    /\ response.result.statistic.BelowHistogramMinCount
          = Cardinality({ i \in Positions : Below(i) })
    /\ response.result.statistic.AboveHistogramMaxCount
          = Cardinality({ i \in Positions : Above(i) })
    /\ \A i \in Positions : (~Below(i) /\ ~Above(i)) => TargetBin(i) # 0
    /\ \A b \in 1..Len(ResultEntries) :
          ResultEntries[b].BinCount
             = Cardinality({ i \in Positions : ~Below(i) /\ ~Above(i) /\ TargetBin(i) = b })

\* C24: in the population pass of both modes a value below the effective
\* minimum only counts as below, a value above the effective maximum only as
\* above, a value equal to the effective maximum is counted in the last bin,
\* and every other value is counted in exactly one bin, the first whose
\* upper bound is strictly greater than the value.
C24_PopulationPass == Populated => PopulationPass

\* C24 restricted to calls whose overrides are absent or finite (holds)
C24_FinitePopulationPass == (Populated /\ FiniteOverrides) => PopulationPass

\* a finite call with a value below, one in a bin and one at the maximum
C24_FiniteWitness ==
    /\ Populated
    /\ FiniteOverrides
    /\ response.input.values = <<-3, 3, 5>>
    /\ response.input.minValueStr = "3"
    /\ response.input.numberOfBins = 2
    /\ response.result.statistic.BelowHistogramMinCount = 1
    /\ BinCounts = <<1, 1>>


(***************************************************************************)
(* Frame of one insertion of buildRepository.                              *)
(***************************************************************************)
PrimaryKeys == { e.Index : e \in Entries }
SecondaryKeys == { k \o "_2" : k \in PrimaryKeys }

\* the keys whose entry the step adds or changes
ChangedKeys ==
    { k \in DOMAIN Repository' : k \notin DOMAIN Repository \/ Repository'[k] # Repository[k] }

\* C25: during build an insertion never changes the entry under an occupied
\* primary key K nor under an occupied secondary key K_2, so both slots keep
\* the first record written to them, and an insertion changes at most one
\* repository entry.
C25_BuildFrame ==
    [][ /\ \A k \in (PrimaryKeys \cup SecondaryKeys) \cap DOMAIN Repository :
              k \in DOMAIN Repository' /\ Repository'[k] = Repository[k]
        /\ DOMAIN Repository \subseteq DOMAIN Repository'
        /\ Cardinality(ChangedKeys) <= 1
        /\ (pending' # pending /\ pc = "build" /\ pending # <<>>)
              => ChangedKeys \subseteq {lastInsert'} ]_vars

\* four records of one cell were inserted: the first two are still in the
\* primary and the secondary slot, the fourth replaced the third
C25_Witness ==
    /\ Len(inserted) = 4
    /\ \A i \in 1..4 : inserted[i].Index = CellA
    /\ inserted[1] # inserted[2] /\ inserted[3] # inserted[1] /\ inserted[3] # inserted[2]
    /\ inserted[4] # inserted[3]
    /\ Repository[CellA] = inserted[1]
    /\ Repository[CellA \o "_2"] = inserted[2]
    /\ Repository[CellA \o "_3"] = inserted[4]


(***************************************************************************)
(* Checks of getElevationFromUTM.                                          *)
(***************************************************************************)
RasterDone == pc = "rasterDone" /\ response.op = "raster" /\ FileExists(response.filename)
Dataset == FileSystem[response.filename]
Rotated == Dataset.gt[3] # 0 \/ Dataset.gt[5] # 0
ZeroPixel == Dataset.gt[2] = 0 \/ Dataset.gt[6] = 0
\* floor((x-gt[0])/gt[1]) and floor((y-gt[3])/gt[5]) for the positive pixel
\* width and the negative pixel height of the rasters
Col == (response.xUTM - Dataset.gt[1]) \div Dataset.gt[2]
Row == (Dataset.gt[4] - response.yUTM) \div (0 - Dataset.gt[6])
InBounds == 0 <= Col /\ Col < Dataset.SizeX /\ 0 <= Row /\ Row < Dataset.SizeY

\* C26: getElevationFromUTM rejects, in this order and without reading any
\* pixel, a rotated or skewed raster, a zero pixel width or height, and a
\* coordinate whose pixel index lies outside the raster; it returns a value
\* only for an in-bounds pixel that differs from the declared NoData marker.
C26_RejectionOrder ==
    RasterDone
       => /\ Rotated => (response.result.err = "rotated or skewed" /\ response.read = <<>>)
          /\ (~Rotated /\ ZeroPixel)
                => (response.result.err = "invalid geotransform" /\ response.read = <<>>)
          /\ (~Rotated /\ ~ZeroPixel /\ ~InBounds)
                => (response.result.err = "outside the raster bounds" /\ response.read = <<>>)
          /\ response.result.err = ""
                => /\ ~Rotated /\ ~ZeroPixel /\ InBounds
                   /\ response.read = << <<Col, Row>> >>
                   /\ response.result.elevation = Dataset.pix[(Col \div PixelBlock) + 1]
                   /\ Dataset.hasNoData => response.result.elevation # Dataset.nodata

\* a skewed raster of pixel width zero is reported as rotated or skewed
C26_Witness ==
    /\ RasterDone
    /\ response.filename = "skewed_zero.tif"
    /\ Rotated /\ ZeroPixel
    /\ response.result.err = "rotated or skewed"

\* a coordinate outside a raster without bands is reported as out of bounds
C26_OutsideWitness ==
    /\ RasterDone
    /\ response.filename = "small_no_bands.tif"
    /\ response.xUTM = 437500 /\ Col = Dataset.SizeX
    /\ response.result.err = "outside the raster bounds"

\* zero pixel height, with a coordinate whose row cannot be computed
C26_ZeroWitness ==
    /\ RasterDone
    /\ response.filename = "zero_height.tif"
    /\ response.result.err = "invalid geotransform"

\* a value is returned for the last row and column of a raster
C26_ValueWitness ==
    /\ RasterDone
    /\ response.filename = "dgm1_32_437_5615_ni.tif"
    /\ response.xUTM = 437499 /\ response.yUTM = 5615600
    /\ response.result = ElevationResult(873, "")


(***************************************************************************)
(* Conservation in quantile mode; the branch of unbinned values.           *)
(***************************************************************************)
Accounted ==
    SumSeq(BinCounts) + response.result.statistic.BelowHistogramMinCount
       + response.result.statistic.AboveHistogramMaxCount

\* C27: every non-error result of quantile mode, the early return for an
\* empty filter range included, accounts for each input value exactly once:
\* sum of BinCount + BelowHistogramMinCount + AboveHistogramMaxCount = number
\* of input values.
C27_QuantileConservation ==
    (HistogramOK /\ Quantile) => Accounted = Len(response.input.values)

\* C27 restricted to calls whose overrides are absent or finite (holds)
C27_FiniteQuantileConservation ==
    (HistogramOK /\ Quantile /\ FiniteOverrides) => Accounted = Len(response.input.values)

\* the early return of a finite call: no value lies inside the filter range
C27_EarlyReturnWitness ==
    /\ HistogramOK /\ Quantile /\ FiniteOverrides
    /\ response.input.values = <<-3, -3>>
    /\ response.input.minValueStr = "3"
    /\ response.input.maxValueStr = "5"
    /\ ResultEntries = <<>>
    /\ response.result.statistic.BelowHistogramMinCount = 2
    /\ Accounted = 2


\* values of a non-error result that fell into the branch "value within
\* effective range not binned (internal error)"
Unbinned == response.result.unbinned

\* C28: for finite inputs the branch of unbinned values is unreachable: in
\* both modes every value v with effectiveMin <= v <= effectiveMax is
\* assigned a bin index in 0..binCount-1.
C28_NoUnbinnedValue ==
    (response.op = "histogram" /\ FiniteOverrides)
       => /\ Unbinned = 0
          /\ Populated
                => \A i \in Positions :
                      (FLe(EffectiveMin, ValueAt(i)) /\ FLe(ValueAt(i), EffectiveMax))
                         => TargetBin(i) \in 1..response.input.numberOfBins

\* values at the minimum, at an inner bound and at the maximum of a finite call
C28_Witness ==
    /\ Populated /\ FiniteOverrides /\ Standard
    /\ response.input.values = <<3, 5, -3>>
    /\ response.input.numberOfBins = 2
    /\ response.input.minValueStr = "3"
    /\ response.input.maxValueStr = "5"
    /\ BinCounts = <<1, 1>>
    /\ Unbinned = 0

\* the branch is reached when the maximum override is "NaN"
C28_NaNReachesBranch == response.op = "histogram" => Unbinned = 0


(***************************************************************************)
(* Size and spacing of the sampling grid.                                  *)
(***************************************************************************)
\* the distance between visited positions i and i+1
Spacing(i) == FracSub(Visited[i + 1].Distance, Visited[i].Distance)

\* C29: for a distance > 0, maxTotalProfilePoints in 2..2000 and a minimum
\* step in 1..1000 calculateElevationProfile visits segments+1 positions with
\* segments+1 <= maxTotalProfilePoints, so the profile never has more than
\* maxTotalProfilePoints points; every spacing between consecutive positions
\* equals the step size except the last, which is greater than 0 and at
\* most the step size.
C29_GridWithinLimit ==
    (ProfileOK /\ MaxPoints \in 2..2000 /\ MinStep \in 1..1000 /\ TotalDistance > 0)
       => /\ Steps >= 1
          /\ Len(Visited) = Steps + 1
          /\ Steps + 1 <= MaxPoints
          /\ Len(Profile) <= MaxPoints
          /\ \A i \in 1..(Steps - 1) : FracEq(Spacing(i), StepSize)
          /\ FracLt(Frac(0, 1), Spacing(Steps))
          /\ FracLe(Spacing(Steps), StepSize)

\* 900 m in steps of 400 m: two spacings of 400 m and a last one of 100 m
C29_Witness ==
    /\ ProfileOK
    /\ TotalDistance = 900 /\ MinStep = 400 /\ MaxPoints = 10
    /\ Steps = 3
    /\ FracEq(Spacing(1), Frac(400, 1))
    /\ FracEq(Spacing(2), Frac(400, 1))
    /\ FracEq(Spacing(3), Frac(100, 1))

\* the limit is met: as many positions as maxTotalProfilePoints allows
C29_LimitWitness ==
    /\ ProfileOK
    /\ MaxPoints = 10 /\ Steps + 1 = 10 /\ Len(Profile) = 10


(***************************************************************************)
(* Request statistics.                                                     *)
(***************************************************************************)
RECURSIVE LoggedSum(_, _)
\* the sum of the values the calls of logStatistics logged for a counter
LoggedSum(logged, counter) ==
    IF logged = <<>> THEN 0 ELSE Head(logged)[counter] + LoggedSum(Tail(logged), counter)

StatisticsIdle == pc = "statistics" /\ statistics.line = "idle"

\* C30: no request is lost from the statistics: under any interleaving of
\* the handlers' atomic increments with logStatistics (load every counter,
\* then store 0 into it) the values reported by all logStatistics calls plus
\* the current counter value add up to the number of increments performed.
C30_NoRequestLost ==
    StatisticsIdle
       => \A counter \in {"PointRequests", "UTMPointRequests"} :
             LoggedSum(statistics.logged, counter) + statistics[counter]
                = statistics.added[counter]

\* what holds instead: no request is counted twice
C30_NoRequestCountedTwice ==
    StatisticsIdle
       => \A counter \in {"PointRequests", "UTMPointRequests"} :
             LoggedSum(statistics.logged, counter) + statistics[counter]
                <= statistics.added[counter]

\* a request counted between the load and the store of a call is in no
\* logged value and not in the counter
C30_RequestLost ==
    /\ StatisticsIdle
    /\ statistics.added.UTMPointRequests = 1
    /\ statistics.UTMPointRequests = 0
    /\ statistics.logged = <<[PointRequests |-> 0, UTMPointRequests |-> 0]>>

====
